---------------------------- MODULE Spec2Model ----------------------------
(***************************************************************************)
(* A model of the format decoders of SciFiReaders:                         *)
(*   - MRCReader.read             (em/tem/mrc_reader.py)                   *)
(*   - WSxMFuncs / WSxM*Reader    (spm/afm/wsxm.py)                        *)
(*   - IgorIBWReader.read         (spm/afm/igor_ibw.py)                    *)
(* Every decoder has its own variables and its own specification; the      *)
(* variables of the other decoders stay at their initial value.            *)
(***************************************************************************)
EXTENDS Integers, Sequences, FiniteSets, TLC

VARIABLES
    mrc_self,     \* MRCReader instance fields: self.data, self.metadata
    mrc_call,     \* the arguments and file content of the last read()
    mrc_ret,      \* what the last read() handed to its caller
    fg_call,      \* the last _wsxm_get_common_files call: directory listing, arguments
    fg_ret,       \* what that call returned or raised
    im_call,      \* the last _wsxm_readimg / _wsxm_readmovie call: path taken, header
    im_ret,       \* what that call returned or raised
    r2_pc,        \* WSxM2DReader.read: "idle", "loop", "returned" or "raised"
    r2_group,     \* filepath_all, the names of the discovered group
    r2_i,         \* position of the for loop in filepath_all
    r2_datasets,  \* the dictionary being built, as a sequence of <<key, dataset>>
    r2_open,      \* positions of the files opened and not closed
    r2_ret,       \* what read() handed to its caller
    ig_call,      \* the wave handed to the last IgorIBWReader.read: points, labels
    ig_ret,       \* what that read() returned or raised
    r1_pc,        \* WSxM1DReader.read: "loop", "returned" or "raised"
    r1_files,     \* the files of the group taken by the for loop so far
    r1_stp,       \* data_dict_stp: channel -> curve index -> curve entry
    r1_chan,      \* data_dict_chan: channel -> its 'curves' dictionary
    r1_ret,       \* what read() handed to its caller
    r3_pc,        \* WSxM3DReader.read: "loop", "returned" or "raised"
    r3_files,     \* the files of the group taken by the for loop so far
    r3_local,     \* the locals data_dict_chan, chan_label, zz_data_type of read(), or unbound
    r3_datasets,  \* the dictionary being built, as a sequence of <<key, dataset>>
    r3_ret,       \* what read() handed to its caller
    sd_default,   \* the dictionary object bound to the default of data_dict in _wsxm_readstp
    sd_calls,     \* the .stp files read so far by calls that pass no accumulator
    sd_ret,       \* what the last such call returned or raised
    hd_call,      \* the header lines handed to the last _wsxm_readheader call
    hd_ret,       \* what that call returned or raised
    ib_installed, \* whether the igor package can be imported in this environment
    ib_bw,        \* the module global bw: "unloaded" before import, None, or the binarywave module
    ib_readers,   \* the Igor reader instances constructed so far, by class name
    ib_reads,     \* how many read() calls were started on those instances
    ib_ret,       \* the outcome of the last import, construction or read
    mx_call,      \* the note of the wave handed to the last IgorMatrixReader.read
    mx_ret,       \* what that read() returned or raised
    cu_file,      \* the WSxM file under the cursor
    cu_pc,        \* the statement the decoder is at
    cu_after,     \* what follows the header being read
    cu_k,         \* the curve or frame being read
    cu_pos,       \* pos, the cursor the decoder carries
    cu_off,       \* the offset of the file handle
    cu_got,       \* the number of bytes the last file.read returned
    cu_found,     \* whether header_size was bound by the search
    cu_short,     \* whether some frame came short
    cu_ret,       \* the last cursor account: the operation, its cursor in and out
    ax_call,      \* the kind of 3D file and its ramp value list handed to the decoder
    ax_ret,       \* the first axis and the order of the slices the decoder returned
    gl_call,      \* the wave handed to _get_chan_labels: its label groups, their type, its channel count
    gl_ret,       \* the labels and units returned, and the labels read() goes on with
    gp_call,      \* the note line handed to IgorIBWReader._read_parms
    gp_ret,       \* the parameter dictionary it returned
    ck_call,      \* the curve header handed to _wsxm_readcurves or _wsxm_readcur
    ck_ret        \* the curve entries the decoder stored for it

mrcVars == <<mrc_self, mrc_call, mrc_ret>>
fgVars == <<fg_call, fg_ret>>
imVars == <<im_call, im_ret>>
r2Vars == <<r2_pc, r2_group, r2_i, r2_datasets, r2_open, r2_ret>>
igVars == <<ig_call, ig_ret>>
r1Vars == <<r1_pc, r1_files, r1_stp, r1_chan, r1_ret>>
r3Vars == <<r3_pc, r3_files, r3_local, r3_datasets, r3_ret>>
sdVars == <<sd_default, sd_calls, sd_ret>>
hdVars == <<hd_call, hd_ret>>
ibVars == <<ib_installed, ib_bw, ib_readers, ib_reads, ib_ret>>
mxVars == <<mx_call, mx_ret>>
cuVars == <<cu_file, cu_pc, cu_after, cu_k, cu_pos, cu_off, cu_got, cu_found, cu_short, cu_ret>>
axVars == <<ax_call, ax_ret>>
glVars == <<gl_call, gl_ret>>
gpVars == <<gp_call, gp_ret>>
ckVars == <<ck_call, ck_ret>>

vars == <<mrc_self, mrc_call, mrc_ret, fg_call, fg_ret, im_call, im_ret,
          r2_pc, r2_group, r2_i, r2_datasets, r2_open, r2_ret,
          ig_call, ig_ret,
          r1_pc, r1_files, r1_stp, r1_chan, r1_ret,
          r3_pc, r3_files, r3_local, r3_datasets, r3_ret,
          sd_default, sd_calls, sd_ret,
          hd_call, hd_ret,
          ib_installed, ib_bw, ib_readers, ib_reads, ib_ret,
          mx_call, mx_ret,
          cu_file, cu_pc, cu_after, cu_k, cu_pos, cu_off, cu_got, cu_found, cu_short, cu_ret,
          ax_call, ax_ret,
          gl_call, gl_ret,
          gp_call, gp_ret,
          ck_call, ck_ret>>

\* Python's None, and the marker of a local name that was never bound.
NoneV == [none |-> TRUE]
Unbound == <<>>

Abs(n) == IF n < 0 THEN -n ELSE n

RECURSIVE Prod(_)
Prod(s) == IF s = <<>> THEN 1 ELSE Head(s) * Prod(Tail(s))

(***************************************************************************)
(*                  The state before any operation ran                     *)
(***************************************************************************)

\* MRCReader.__init__: no data, no metadata; nothing was read yet.
MRCInit ==
    /\ mrc_self = [data |-> NoneV, metadata |-> NoneV,
                   scan_pixel_size |-> NoneV, scan_size_units |-> NoneV]
    /\ mrc_call = NoneV
    /\ mrc_ret = [kind |-> "none"]

\* No file-group discovery ran yet.
FGInit ==
    /\ fg_call = NoneV
    /\ fg_ret = [kind |-> "none"]

\* No image or movie was decoded yet.
IMInit ==
    /\ im_call = NoneV
    /\ im_ret = [kind |-> "none"]

\* WSxM2DReader constructed, read() not called yet.
R2Init ==
    /\ r2_pc = "idle"
    /\ r2_group = <<>>
    /\ r2_i = 0
    /\ r2_datasets = <<>>
    /\ r2_open = {}
    /\ r2_ret = [kind |-> "none"]

\* No Igor wave was read yet.
IGInit ==
    /\ ig_call = NoneV
    /\ ig_ret = [kind |-> "none"]

\* WSxM1DReader.read entered: both dictionaries empty, no file taken yet.
R1Init ==
    /\ r1_pc = "loop"
    /\ r1_files = <<>>
    /\ r1_stp = <<>>
    /\ r1_chan = <<>>
    /\ r1_ret = [kind |-> "none"]

\* WSxM3DReader.read entered: empty dictionary, the decode locals not bound.
R3Init ==
    /\ r3_pc = "loop"
    /\ r3_files = <<>>
    /\ r3_local = Unbound
    /\ r3_datasets = <<>>
    /\ r3_ret = [kind |-> "none"]

\* Module just loaded: the default dictionary of _wsxm_readstp, created once
\* when the def statement ran, is empty; no call yet.
SDInit ==
    /\ sd_default = <<>>
    /\ sd_calls = <<>>
    /\ sd_ret = [kind |-> "none"]

\* No header was parsed yet.
HDInit ==
    /\ hd_call = NoneV
    /\ hd_ret = [kind |-> "none"]

\* igor_ibw.py not imported yet, in an environment that has igor.
IBInit ==
    /\ ib_installed = TRUE
    /\ ib_bw = "unloaded"
    /\ ib_readers = <<>>
    /\ ib_reads = 0
    /\ ib_ret = [kind |-> "none"]

\* No Matrix wave was read yet.
MXInit ==
    /\ mx_call = NoneV
    /\ mx_ret = [kind |-> "none"]

\* No file is being decoded.
CUInit ==
    /\ cu_file = NoneV
    /\ cu_pc = "none"
    /\ cu_after = "none"
    /\ cu_k = 0
    /\ cu_pos = 0
    /\ cu_off = 0
    /\ cu_got = 0
    /\ cu_found = FALSE
    /\ cu_short = FALSE
    /\ cu_ret = [op |-> "none"]

\* No 3D file was decoded for its axes yet.
AXInit ==
    /\ ax_call = NoneV
    /\ ax_ret = [kind |-> "none"]

\* No wave was asked for its channel labels yet.
GLInit ==
    /\ gl_call = NoneV
    /\ gl_ret = [kind |-> "none"]

\* No note was parsed yet.
GPInit ==
    /\ gp_call = NoneV
    /\ gp_ret = [kind |-> "none"]

\* No curve was decoded for its keys yet.
CKInit ==
    /\ ck_call = NoneV
    /\ ck_ret = [kind |-> "none"]

Init ==
    /\ MRCInit
    /\ FGInit
    /\ IMInit
    /\ R2Init
    /\ IGInit
    /\ R1Init
    /\ R3Init
    /\ SDInit
    /\ HDInit
    /\ IBInit
    /\ MXInit
    /\ CUInit
    /\ AXInit
    /\ GLInit
    /\ GPInit
    /\ CKInit

(***************************************************************************)
(*                              MRCReader                                  *)
(***************************************************************************)

\* f"Channel_{int(channel_number):03d}": the three digits after 'Channel_'.
ChannelKey(n) == <<(n \div 100) % 10, (n \div 10) % 10, n % 10>>

\* Largest scan coordinate written in the extended header.
MaxScan == 4
\* Largest detector edge.
MaxDet == 2

\* An MRC file as mrcfile.mmap presents it: the four scan-size fields of the
\* extended header (constant over the records, so np.unique yields one value
\* per field), and the data block of `frames` detector frames of u x v pixels.
\* `short` frames are missing when the acquisition was stopped early.
MRCFiles ==
    { f \in [right : {0, MaxScan}, left : {0},
             top : {MaxScan - 1}, bottom : {0, 1},
             u : {MaxDet}, v : {MaxDet},
             frames : 0 .. (MaxScan * MaxScan)] :
        \E short \in {0, 1} :
            f.frames = Abs(f.right - f.left) * Abs(f.top - f.bottom) - short }

Handedness == {"right", "left", "up"}

\* mrc_reader.py 65-71: the unique value of each scan-size field, then the two
\* raster extents.  Note which field pair feeds which name.
y_shape(f) == Abs(f.right - f.left)
x_shape(f) == Abs(f.top - f.bottom)

\* Variant of reshape_target with the two scan extents exchanged.
reshape_target_exchanged(f, h) ==
    IF h = "right" THEN <<y_shape(f), x_shape(f), f.u, f.v>>
    ELSE IF h = "left" THEN <<x_shape(f), y_shape(f), f.u, f.v>>
    ELSE Unbound

\* Variant of reshape_target whose else branch falls back to the 'right' order.
reshape_target_defaulted(f, h) ==
    IF h = "left" THEN <<y_shape(f), x_shape(f), f.u, f.v>>
    ELSE <<x_shape(f), y_shape(f), f.u, f.v>>

\* mrc_reader.py 73-78: the reshape target.  The else branch only prints, so
\* the local name reshape_target stays unbound for any other handedness.
reshape_target(f, h) ==
    IF h = "right" THEN <<x_shape(f), y_shape(f), f.u, f.v>>
    ELSE IF h = "left" THEN <<y_shape(f), x_shape(f), f.u, f.v>>
    ELSE Unbound

\* np.reshape(mrc_data, target) succeeds iff the element counts agree
\* (mrc_data has shape (frames, u, v)); otherwise it raises ValueError.
ReshapeFits(f, target) == Prod(target) = f.frames * f.u * f.v

\* mrc_reader.py 80-85: self.data after the try/except.  A ValueError is caught
\* and only printed: self.data keeps whatever it held before the call.  The
\* field `fresh` is a history mark: TRUE iff the array was produced by the
\* call that just ran.
DataAfterReshape(old, f, target) ==
    IF ReshapeFits(f, target)
    THEN [shape |-> target, fresh |-> TRUE]
    ELSE IF old = NoneV THEN NoneV ELSE [old EXCEPT !.fresh = FALSE]

\* mrc_reader.py 106-111: the metadata dictionary, one unique-value summary per
\* extended-header label.
MRCMetadata(f) ==
    [right |-> f.right, left |-> f.left, top |-> f.top, bottom |-> f.bottom]

\* Lengths are decimal numbers mant * 10^exp.  The scan_pixel_size argument:
\* not supplied (None), zero, or 2e-10 m.
ScanPixelSizes == {NoneV, [mant |-> 0, exp |-> 0], [mant |-> 2, exp |-> -10]}

\* Python truth value of the argument: None and 0 are false.
Truthy(sps) == sps # NoneV /\ sps.mant # 0

\* Variant of ScanScale that leaves the value in metres.
ScanScale_metres(sps) ==
    IF Truthy(sps)
    THEN [pixel_size |-> sps, units |-> "Angstrom"]
    ELSE [pixel_size |-> [mant |-> 1, exp |-> 0], units |-> "pixels"]

\* mrc_reader.py 97-103: self.scan_pixel_size and self.scan_size_units; the
\* factor 1e10 turns metres into the unit written 'Å' in the source.
ScanScale(sps) ==
    IF Truthy(sps)
    THEN [pixel_size |-> [mant |-> sps.mant, exp |-> sps.exp + 10], units |-> "Angstrom"]
    ELSE [pixel_size |-> [mant |-> 1, exp |-> 0], units |-> "pixels"]

\* mrc_reader.py 120-126: np.arange(n) * self.scan_pixel_size.
ScanAxis(n, pixel_size) ==
    [k \in 1 .. n |-> [mant |-> (k - 1) * pixel_size.mant, exp |-> pixel_size.exp]]

\* mrc_reader.py 115-136: the dataset built from self.data and its four axes
\* (np.arange(dataset.shape[i]) scaled), returned under 'Channel_000'.
MRCDataset(data, meta, scale) ==
    [kind |-> "returned",
     key |-> ChannelKey(0),
     shape |-> data.shape,
     fresh |-> data.fresh,
     axes |-> [i \in 1 .. Len(data.shape) |-> data.shape[i]],
     scan_axes |-> [i \in 1 .. 2 |-> ScanAxis(data.shape[i], scale.pixel_size)],
     scan_units |-> scale.units,
     metadata |-> meta]

\* MRCReader.read(handedness, scan_pixel_size) on a file with content f
\* (mrc_reader.py 46-136).
\*  - unbound reshape_target: evaluating the arguments of np.reshape at line 81
\*    raises UnboundLocalError, which `except ValueError` does not catch;
\*  - self.data still None at line 115: Dataset.from_array(None, chunks=4-tuple)
\*    has no 4-D array to chunk and dataset.shape[0] does not exist: the call
\*    raises after self.metadata was set.
MRCRead(f, h, sps) ==
    LET target == reshape_target(f, h) IN
    /\ mrc_call' = [file |-> f, handedness |-> h, scan_pixel_size |-> sps]
    /\ IF target = Unbound
       THEN /\ mrc_ret' = [kind |-> "raised", error |-> "UnboundLocalError"]
            /\ mrc_self' = [mrc_self EXCEPT !.data =
                              IF @ = NoneV THEN NoneV ELSE [@ EXCEPT !.fresh = FALSE]]
       ELSE LET data == DataAfterReshape(mrc_self.data, f, target)
                meta == MRCMetadata(f)
                scale == ScanScale(sps) IN
            /\ mrc_self' = [data |-> data, metadata |-> meta,
                            scan_pixel_size |-> scale.pixel_size,
                            scan_size_units |-> scale.units]
            /\ mrc_ret' = IF data = NoneV
                          THEN [kind |-> "raised", error |-> "NoArray"]
                          ELSE MRCDataset(data, meta, scale)

MRCNext ==
    /\ \E f \in MRCFiles, h \in Handedness, sps \in ScanPixelSizes : MRCRead(f, h, sps)
    /\ UNCHANGED <<fgVars, imVars, r2Vars, igVars, r1Vars, r3Vars, sdVars, hdVars, ibVars, mxVars, cuVars, axVars, glVars, gpVars, ckVars>>

SpecMRC == Init /\ [][MRCNext]_vars

-----------------------------------------------------------------------------
\* Claims about MRCReader.read

MRCCalled == mrc_call # NoneV
MRCReturnedFresh == mrc_ret.kind = "returned" /\ mrc_ret.fresh
ScanRL == Abs(mrc_call.file.right - mrc_call.file.left)
ScanTB == Abs(mrc_call.file.top - mrc_call.file.bottom)
MRCTruncated ==
    /\ MRCCalled
    /\ mrc_call.handedness \in {"right", "left"}
    /\ mrc_call.file.frames < ScanRL * ScanTB

\* C1 as stated: a read that reshapes the buffer returns shape
\* (|right-left|, |top-bottom|, u, v) for handedness 'right' and
\* (|top-bottom|, |right-left|, u, v) for 'left'.
C1_AsStated ==
    (MRCCalled /\ MRCReturnedFresh) =>
        mrc_ret.shape =
            IF mrc_call.handedness = "right"
            THEN <<ScanRL, ScanTB, mrc_call.file.u, mrc_call.file.v>>
            ELSE <<ScanTB, ScanRL, mrc_call.file.u, mrc_call.file.v>>

\* C1 amended: a read that reshapes the buffer returns shape
\* (|top-bottom|, |right-left|, u, v) for handedness 'right' and
\* (|right-left|, |top-bottom|, u, v) for 'left'.
C1_ShapeByHandedness ==
    (MRCCalled /\ MRCReturnedFresh) =>
        mrc_ret.shape =
            IF mrc_call.handedness = "right"
            THEN <<ScanTB, ScanRL, mrc_call.file.u, mrc_call.file.v>>
            ELSE <<ScanRL, ScanTB, mrc_call.file.u, mrc_call.file.v>>

\* The example of C1: |right-left| = 4, |top-bottom| = 3, frames (2,2), 'right'.
C1_Witness ==
    /\ MRCCalled /\ MRCReturnedFresh
    /\ mrc_call.handedness = "right"
    /\ ScanRL = 4 /\ ScanTB = 3
    /\ mrc_call.file.u = 2 /\ mrc_call.file.v = 2
    /\ mrc_ret.shape = <<3, 4, 2, 2>>

\* C2: a read with a handedness other than 'right' or 'left' raises; it never
\* returns a record.
C2_BadHandednessRaises ==
    (MRCCalled /\ mrc_call.handedness \notin {"right", "left"}) =>
        mrc_ret.kind = "raised"

\* A bad-handedness read on an instance that already holds an array.
C2_Witness ==
    /\ MRCCalled /\ mrc_call.handedness = "up"
    /\ mrc_self.data # NoneV
    /\ mrc_ret.kind = "raised"

\* C3 as stated: a read of a truncated buffer does not raise, returns a record
\* with populated metadata, and that record does not carry the array of an
\* earlier read (the model's returned records always carry self.data).
C3_AsStated ==
    MRCTruncated =>
        /\ mrc_ret.kind = "returned"
        /\ mrc_ret.metadata = MRCMetadata(mrc_call.file)
        /\ mrc_ret.fresh

\* The read returned a record.
MRCReturned == MRCCalled /\ mrc_ret.kind = "returned"

\* The index sequence 0 .. n-1 times the step.
IndexTimes(n, step) ==
    [k \in 1 .. n |-> [mant |-> (k - 1) * step.mant, exp |-> step.exp]]
Times1e10(x) == [mant |-> x.mant, exp |-> x.exp + 10]
One == [mant |-> 1, exp |-> 0]

MaxDirEntries == 3

\* File names are sequences of characters.
Digits == {"0", "1", "2"}
N_sample_0001_top  == <<"s", "_", "0", "0", "0", "1", ".", "t">>
N_sample_0001_ch1  == <<"s", "_", "0", "0", "0", "1", ".", "c">>
N_other_0002_top   == <<"o", "_", "0", "0", "0", "2", ".", "t">>
N_sample_0002_top  == <<"s", "_", "0", "0", "0", "2", ".", "t">>
N_xsample_0001_top == <<"x", "s", "_", "0", "0", "0", "1", ".", "t">>
N_sample_0001_dir  == <<"s", "_", "0", "0", "0", "1", "_", "d">>
N_sample_top       == <<"s", ".", "t">>
N_s_a_0001_f_top   == <<"s", "_", "a", "_", "0", "0", "0", "1", ".", "f", ".", "t">>
N_sample_0001_gsi  == <<"s", "_", "0", "0", "0", "1", ".", "g">>

\* What a directory may hold: regular files and one sub-directory.
DirUniverse ==
    { [name |-> N_sample_0001_top,  is_file |-> TRUE],
      [name |-> N_sample_0001_ch1,  is_file |-> TRUE],
      [name |-> N_other_0002_top,   is_file |-> TRUE],
      [name |-> N_sample_0002_top,  is_file |-> TRUE],
      [name |-> N_xsample_0001_top, is_file |-> TRUE],
      [name |-> N_sample_0001_dir,  is_file |-> FALSE],
      [name |-> N_sample_top,       is_file |-> TRUE],
      [name |-> N_s_a_0001_f_top,   is_file |-> TRUE],
      [name |-> N_sample_0001_gsi,  is_file |-> TRUE] }

NameUniverse == { e.name : e \in DirUniverse }

\* The ext argument: None, or an extension with its dot.
ExtArgs == { <<>>, <<".", "t">> }
ExtNone == <<>>

\* Path.iterdir yields the entries in an arbitrary order.
Listings(D) ==
    { o \in [1 .. Cardinality(D) -> D] :
        \A i, j \in 1 .. Cardinality(D) : o[i] = o[j] => i = j }

\* re.search(r'\_\d{4}', filename).start(), 1-based; 0 when there is no match.
IsMatchAt(name, i) ==
    /\ i + 4 <= Len(name)
    /\ name[i] = "_"
    /\ \A k \in 1 .. 4 : name[i + k] \in Digits
match_start(name) ==
    IF \E i \in 1 .. Len(name) : IsMatchAt(name, i)
    THEN CHOOSE i \in 1 .. Len(name) :
            /\ IsMatchAt(name, i)
            /\ \A j \in 1 .. (i - 1) : ~IsMatchAt(name, j)
    ELSE 0

\* Variant of filename_com that stops one character short of the run index.
filename_com_short(name) == SubSeq(name, 1, match_start(name) + 3)

\* wsxm.py 558: filename[:match.start()+5].
filename_com(name) == SubSeq(name, 1, match_start(name) + 4)

\* str.startswith
StartsWith(name, prefix) ==
    /\ Len(prefix) <= Len(name)
    /\ SubSeq(name, 1, Len(prefix)) = prefix

\* Path.suffix: the text from the last dot on, unless that dot is the first or
\* the last character; otherwise empty.
Suffix(name) ==
    LET dots == { i \in 2 .. (Len(name) - 1) : name[i] = "." } IN
    IF dots = {} \/ name[Len(name)] = "." THEN <<>>
    ELSE LET last == CHOOSE i \in dots : \A j \in dots : j <= i IN
         SubSeq(name, last, Len(name))

\* wsxm.py 562-570: the entries kept by the directory scan, in listing order.
Kept(listing, com, ext) ==
    LET keep(e) == /\ (ext = ExtNone \/ Suffix(e.name) = ext)
                   /\ e.is_file
                   /\ StartsWith(e.name, com)
        RECURSIVE walk(_)
        walk(i) == IF i > Len(listing) THEN <<>>
                   ELSE IF keep(listing[i]) THEN <<listing[i].name>> \o walk(i + 1)
                   ELSE walk(i + 1)
    IN walk(1)

\* list.remove(x): drops the first occurrence.
RemoveFirst(files, x) ==
    LET i == CHOOSE k \in 1 .. Len(files) :
                 files[k] = x /\ \A j \in 1 .. (k - 1) : files[j] # x
    IN SubSeq(files, 1, i - 1) \o SubSeq(files, i + 1, Len(files))

InSeq(files, x) == \E k \in 1 .. Len(files) : files[k] = x

\* _wsxm_get_common_files(filepath, ext) in a directory listed as `listing`
\* (wsxm.py 525-574).  files.remove raises ValueError when the requested path
\* was not collected.
GetCommonFiles(listing, filepath, ext) ==
    IF match_start(filepath) = 0
    THEN [kind |-> "returned", files |-> <<filepath>>]
    ELSE LET files == Kept(listing, filename_com(filepath), ext) IN
         IF InSeq(files, filepath)
         THEN [kind |-> "returned", files |-> <<filepath>> \o RemoveFirst(files, filepath)]
         ELSE [kind |-> "raised", error |-> "ValueError"]

\* The calls under study: any listing of at most MaxDirEntries entries, any
\* requested name, either ext argument.
FGInputs ==
    /\ fg_call \in
          { [listing |-> l, filepath |-> fp, ext |-> ext] :
              l \in UNION { Listings(D) :
                        D \in { E \in SUBSET DirUniverse :
                                  Cardinality(E) <= MaxDirEntries } },
              fp \in NameUniverse, ext \in ExtArgs }
    /\ fg_ret = [kind |-> "none"]

InitFiles ==
    /\ MRCInit
    /\ FGInputs
    /\ IMInit
    /\ R2Init
    /\ IGInit
    /\ R1Init
    /\ R3Init
    /\ SDInit
    /\ HDInit
    /\ IBInit
    /\ MXInit
    /\ CUInit
    /\ AXInit
    /\ GLInit
    /\ GPInit
    /\ CKInit

FGCall ==
    /\ fg_ret.kind = "none"
    /\ fg_ret' = GetCommonFiles(fg_call.listing, fg_call.filepath, fg_call.ext)
    /\ UNCHANGED fg_call

FGNext ==
    /\ FGCall
    /\ UNCHANGED <<mrcVars, imVars, r2Vars, igVars, r1Vars, r3Vars, sdVars, hdVars, ibVars, mxVars, cuVars, axVars, glVars, gpVars, ckVars>>

SpecFiles == InitFiles /\ [][FGNext]_vars

-----------------------------------------------------------------------------
\* Claims about _wsxm_get_common_files

\* name belongs to the run of fp: it agrees with fp on every character up to
\* and including the 4 digits of fp's first run index.
SameRun(name, fp) ==
    \E i \in 1 .. Len(fp) :
        /\ IsMatchAt(fp, i)
        /\ \A j \in 1 .. (i - 1) : ~IsMatchAt(fp, j)
        /\ Len(name) >= i + 4
        /\ \A k \in 1 .. (i + 4) : name[k] = fp[k]

ListedFiles(listing) ==
    { listing[i].name : i \in { k \in DOMAIN listing : listing[k].is_file } }

\* C4: for an existing regular file whose name holds a run index, the call
\* (no ext filter) returns exactly the regular files of the directory that
\* belong to the same run, the requested one first and no file twice.
C4_GroupIsTheRun ==
    ( /\ fg_ret.kind # "none"
      /\ fg_call.ext = ExtNone
      /\ \E i \in 1 .. Len(fg_call.filepath) : IsMatchAt(fg_call.filepath, i)
      /\ fg_call.filepath \in ListedFiles(fg_call.listing) )
    =>
    ( /\ fg_ret.kind = "returned"
      /\ fg_ret.files[1] = fg_call.filepath
      /\ \A i, j \in DOMAIN fg_ret.files : fg_ret.files[i] = fg_ret.files[j] => i = j
      /\ { fg_ret.files[i] : i \in DOMAIN fg_ret.files }
            = { n \in ListedFiles(fg_call.listing) : SameRun(n, fg_call.filepath) } )

\* The example of C4, listed with the requested file last.
C4_Witness ==
    /\ fg_call.listing = << [name |-> N_sample_0001_ch1, is_file |-> TRUE],
                            [name |-> N_other_0002_top,  is_file |-> TRUE],
                            [name |-> N_sample_0001_top, is_file |-> TRUE] >>
    /\ fg_call.filepath = N_sample_0001_top
    /\ fg_call.ext = ExtNone
    /\ fg_ret.kind = "returned"
    /\ fg_ret.files = <<N_sample_0001_top, N_sample_0001_ch1>>

(***************************************************************************)
(*        WSxMFuncs._wsxm_readimg and WSxMFuncs._wsxm_readmovie            *)
(***************************************************************************)

\* Largest number of rows / columns of an image.
MaxPix == 2
\* Largest number of frames of a movie.
MaxFrames == 2

\* Calibration factors are rationals <<numerator, denominator>>.
RatEq(a, b) == a[1] * b[2] = b[1] * a[2]
RatDiv(a, c) == <<a[1], a[2] * c>>

\* The header fields the image and movie decoders look up, as parsed values:
\*   chan      'Acquisition channel [General Info]'
\*   rows/cols 'Number of rows/columns [General Info]'
\*   z_amp     'Z Amplitude [General Info]', a number and a unit
\*   z_min/max 'Minimum/Maximum [Miscellaneous]'
\*   has_conv/conv  'Conversion Factor 00 [General Info]', when present
\*   frames    'Number of Frames [General Info]' (movies)
\*   npoints   the number of data points actually stored after the header
WSxMHeaders ==
    { h \in [chan : {"Amplitude", "Topography"},
             rows : 1 .. MaxPix, cols : 1 .. MaxPix,
             z_amp : [val : {0, 2}, unit : {"V", "nm"}],
             z_min : {0}, z_max : {0, 1, 2},
             has_conv : BOOLEAN, conv : {2, 3},
             frames : 1 .. MaxFrames,
             npoints : 0 .. (MaxPix * MaxPix * MaxFrames)] :
        /\ (~h.has_conv => h.conv = 2)
        /\ \E short \in {0, 1} : h.npoints = h.rows * h.cols * h.frames - short }

\* wsxm.py 680-685 and 1387-1392: amplitude over raw range, or 1 for zero data.
\* The quotient of two floats raises ZeroDivisionError on an empty range.
BaseCalibFails(h) == h.z_amp.val # 0 /\ h.z_max - h.z_min = 0
BaseCalib(h) ==
    IF h.z_amp.val = 0 THEN <<1, 1>> ELSE <<h.z_amp.val, h.z_max - h.z_min>>

\* wsxm.py 691 and 1396: the test guarding the unit correction.
NeedsVoltFix(h) == h.chan = "Amplitude" /\ h.z_amp.unit # "V"

\* Variant of ImgCalib that corrects the unit but not the factor.
ImgCalib_unit_only(h) ==
    IF NeedsVoltFix(h)
    THEN [z_calib |-> BaseCalib(h), z_unit |-> "V"]
    ELSE [z_calib |-> BaseCalib(h), z_unit |-> h.z_amp.unit]

\* wsxm.py 680-694 (_wsxm_readimg): calibration and unit of the Z data.
ImgCalib(h) ==
    IF NeedsVoltFix(h)
    THEN [z_calib |-> RatDiv(BaseCalib(h), h.conv), z_unit |-> "V"]
    ELSE [z_calib |-> BaseCalib(h), z_unit |-> h.z_amp.unit]

\* wsxm.py 1387-1399 (_wsxm_readmovie): the same correction, written again.
MovieCalib(h) ==
    IF h.chan = "Amplitude" /\ h.z_amp.unit # "V"
    THEN [z_calib |-> RatDiv(BaseCalib(h), h.conv), z_unit |-> "V"]
    ELSE [z_calib |-> BaseCalib(h), z_unit |-> h.z_amp.unit]

\* _wsxm_readimg(file, header_dict, pos) on the first image after the header
\* (wsxm.py 624-732).  Failures, in program order: the empty raw range
\* (line 685), the missing conversion factor (line 692), and a payload that
\* does not fill rows x cols (reshape, line 721).
ReadImg(h) ==
    IF BaseCalibFails(h) THEN [kind |-> "raised", error |-> "ZeroDivisionError"]
    ELSE IF NeedsVoltFix(h) /\ ~h.has_conv THEN [kind |-> "raised", error |-> "KeyError"]
    ELSE IF h.npoints < h.rows * h.cols THEN [kind |-> "raised", error |-> "ValueError"]
    ELSE [kind |-> "returned",
          Zshape |-> <<h.rows, h.cols>>,
          Xlen |-> h.rows,
          Ylen |-> h.cols,
          z_calib |-> ImgCalib(h).z_calib,
          z_unit |-> ImgCalib(h).z_unit]

\* _wsxm_readmovie(filepath) (wsxm.py 1307-1454): frames of rows x cols
\* points, reshaped to (frames, cols, rows); the frame axis has one value per
\* frame.  Failures as in ReadImg (lines 1392, 1397, 1438).
ReadMovie(h) ==
    IF BaseCalibFails(h) THEN [kind |-> "raised", error |-> "ZeroDivisionError"]
    ELSE IF (h.chan = "Amplitude" /\ h.z_amp.unit # "V") /\ ~h.has_conv
         THEN [kind |-> "raised", error |-> "KeyError"]
    ELSE IF h.npoints # h.rows * h.cols * h.frames
         THEN [kind |-> "raised", error |-> "ValueError"]
    ELSE [kind |-> "returned",
          ZZshape |-> <<h.frames, h.cols, h.rows>>,
          Xlen |-> h.rows,
          Ylen |-> h.cols,
          Zlen |-> h.frames,
          z_calib |-> MovieCalib(h).z_calib,
          z_unit |-> MovieCalib(h).z_unit]

\* The calls under study: either decoder on any header.
IMInputs ==
    /\ im_call \in [path : {"img", "movie"}, header : WSxMHeaders]
    /\ im_ret = [kind |-> "none"]

InitCalib ==
    /\ MRCInit
    /\ FGInit
    /\ IMInputs
    /\ R2Init
    /\ IGInit
    /\ R1Init
    /\ R3Init
    /\ SDInit
    /\ HDInit
    /\ IBInit
    /\ MXInit
    /\ CUInit
    /\ AXInit
    /\ GLInit
    /\ GPInit
    /\ CKInit

IMReadImg ==
    /\ im_ret.kind = "none"
    /\ im_call.path = "img"
    /\ im_ret' = ReadImg(im_call.header)
    /\ UNCHANGED <<im_call, mrcVars, fgVars, r2Vars, igVars, r1Vars, r3Vars, sdVars, hdVars, ibVars, mxVars, cuVars, axVars, glVars, gpVars, ckVars>>

IMReadMovie ==
    /\ im_ret.kind = "none"
    /\ im_call.path = "movie"
    /\ im_ret' = ReadMovie(im_call.header)
    /\ UNCHANGED <<im_call, mrcVars, fgVars, r2Vars, igVars, r1Vars, r3Vars, sdVars, hdVars, ibVars, mxVars, cuVars, axVars, glVars, gpVars, ckVars>>

IMNext ==
    \/ IMReadImg
    \/ IMReadMovie

SpecCalib == InitCalib /\ [][IMNext]_vars

-----------------------------------------------------------------------------
\* Claims about the Amplitude unit correction

\* The calibration the header declares: amplitude over the raw range.
DeclaredCalib(h) ==
    IF h.z_amp.val = 0 THEN <<1, 1>> ELSE <<h.z_amp.val, h.z_max - h.z_min>>

\* C5: in the image and the movie decoder alike, an Amplitude channel not
\* declared in V gets the declared calibration divided by the conversion
\* factor and the unit V; any other channel, and an Amplitude channel declared
\* in V, keeps the declared calibration and the declared unit.
C5_AmplitudeInVolts ==
    im_ret.kind = "returned" =>
        LET h == im_call.header IN
        IF h.chan = "Amplitude" /\ h.z_amp.unit # "V"
        THEN /\ RatEq(<<im_ret.z_calib[1] * h.conv, im_ret.z_calib[2]>>, DeclaredCalib(h))
             /\ ~RatEq(im_ret.z_calib, DeclaredCalib(h))
             /\ im_ret.z_unit = "V"
        ELSE /\ RatEq(im_ret.z_calib, DeclaredCalib(h))
             /\ im_ret.z_unit = h.z_amp.unit

\* An Amplitude image declared in nm, decoded.
C5_Witness ==
    /\ im_ret.kind = "returned"
    /\ im_call.path = "img"
    /\ im_call.header.chan = "Amplitude"
    /\ im_call.header.z_amp = [val |-> 2, unit |-> "nm"]
    /\ im_call.header.conv = 2
    /\ im_call.header.z_max = 1
    /\ im_ret.z_calib = <<2, 2>>
    /\ im_ret.z_unit = "V"

(***************************************************************************)
(*                          WSxM2DReader.read                              *)
(***************************************************************************)

\* The suffix of force-volume files, which the 2D reader skips.
GsiExt == <<".", "g">>

\* The content of the image files of a group: any channel and size, amplitude
\* 2 nm over a raw range of 1, with or without a conversion factor, complete
\* or one point short.
Headers2D ==
    { h \in WSxMHeaders :
        /\ h.z_amp = [val |-> 2, unit |-> "nm"]
        /\ h.z_max = 1
        /\ h.conv = 2
        /\ h.frames = 1 }

\* The shape of Z.T for a 2-D array (np.flip keeps the shape).
Transposed(shape) == <<shape[2], shape[1]>>

\* wsxm.py 74-95: the dataset wraps np.flip(Z.T); axis 0 gets the X values and
\* axis 1 the Y values of _wsxm_readimg.  `axes` holds the lengths of the value
\* sequences.
Dataset2D(h, img) ==
    [shape |-> Transposed(img.Zshape),
     axes |-> <<img.Xlen, img.Ylen>>,
     units |-> img.z_unit,
     quantity |-> h.chan]

IsListedFile(listing, name) ==
    \E k \in DOMAIN listing : listing[k].name = name /\ listing[k].is_file

\* wsxm.py 45-52: group discovery for the (existing) requested file, then the
\* empty dictionary and counter.
R2Start ==
    /\ r2_pc = "idle"
    /\ \E D \in SUBSET DirUniverse :
         /\ Cardinality(D) <= MaxDirEntries
         /\ \E listing \in Listings(D), filepath \in NameUniverse :
              /\ IsListedFile(listing, filepath)
              /\ LET found == GetCommonFiles(listing, filepath, ExtNone) IN
                 IF found.kind = "raised"
                 THEN /\ r2_pc' = "raised"
                      /\ r2_ret' = found
                      /\ UNCHANGED <<r2_group, r2_i>>
                 ELSE /\ r2_pc' = "loop"
                      /\ r2_group' = found.files
                      /\ r2_i' = 1
                      /\ UNCHANGED r2_ret
    /\ UNCHANGED <<r2_datasets, r2_open, mrcVars, fgVars, imVars, igVars, r1Vars, r3Vars, sdVars, hdVars, ibVars, mxVars, cuVars, axVars, glVars, gpVars, ckVars>>

\* wsxm.py 53-55: a *.gsi file of the group is passed over.
R2Skip ==
    /\ r2_pc = "loop"
    /\ r2_i <= Len(r2_group)
    /\ Suffix(r2_group[r2_i]) = GsiExt
    /\ r2_i' = r2_i + 1
    /\ UNCHANGED <<r2_pc, r2_group, r2_datasets, r2_open, r2_ret, mrcVars, fgVars, imVars, igVars, r1Vars, r3Vars, sdVars, hdVars, ibVars, mxVars, cuVars, axVars, glVars, gpVars, ckVars>>

\* wsxm.py 59-101: one image file is opened, decoded, closed and its dataset
\* stored under the next channel key.
R2Decode ==
    /\ r2_pc = "loop"
    /\ r2_i <= Len(r2_group)
    /\ Suffix(r2_group[r2_i]) # GsiExt
    /\ \E h \in Headers2D :
         LET img == ReadImg(h) IN
         /\ img.kind = "returned"
         /\ r2_datasets' = Append(r2_datasets,
                                  <<ChannelKey(Len(r2_datasets)), Dataset2D(h, img)>>)
    /\ r2_i' = r2_i + 1
    /\ UNCHANGED <<r2_pc, r2_group, r2_open, r2_ret, mrcVars, fgVars, imVars, igVars, r1Vars, r3Vars, sdVars, hdVars, ibVars, mxVars, cuVars, axVars, glVars, gpVars, ckVars>>

\* wsxm.py 59-63: _wsxm_readimg raises between open and close; the exception
\* leaves read(), the file stays open and the dictionary is not returned.
R2Fail ==
    /\ r2_pc = "loop"
    /\ r2_i <= Len(r2_group)
    /\ Suffix(r2_group[r2_i]) # GsiExt
    /\ \E h \in Headers2D :
         LET img == ReadImg(h) IN
         /\ img.kind = "raised"
         /\ r2_ret' = img
    /\ r2_open' = r2_open \cup {r2_i}
    /\ r2_pc' = "raised"
    /\ UNCHANGED <<r2_group, r2_i, r2_datasets, mrcVars, fgVars, imVars, igVars, r1Vars, r3Vars, sdVars, hdVars, ibVars, mxVars, cuVars, axVars, glVars, gpVars, ckVars>>

\* wsxm.py 108: the loop is over, the dictionary is returned.
R2Return ==
    /\ r2_pc = "loop"
    /\ r2_i > Len(r2_group)
    /\ r2_pc' = "returned"
    /\ r2_ret' = [kind |-> "returned", datasets |-> r2_datasets]
    /\ UNCHANGED <<r2_group, r2_i, r2_datasets, r2_open, mrcVars, fgVars, imVars, igVars, r1Vars, r3Vars, sdVars, hdVars, ibVars, mxVars, cuVars, axVars, glVars, gpVars, ckVars>>

R2Next ==
    \/ R2Start
    \/ R2Skip
    \/ R2Decode
    \/ R2Fail
    \/ R2Return

SpecRead2D == Init /\ [][R2Next]_vars

-----------------------------------------------------------------------------
\* Claims about WSxM2DReader.read

\* C10 as stated: every dataset of the dictionary has as many axes as its
\* array has dimensions, and axis i holds as many values as dimension i is long.
C10_AsStated ==
    \A k \in DOMAIN r2_datasets :
        LET ds == r2_datasets[k][2] IN
        /\ Len(ds.axes) = Len(ds.shape)
        /\ \A i \in DOMAIN ds.shape : ds.axes[i] = ds.shape[i]

\* The read() call is over, by return or by exception.
R2Over == r2_pc \in {"returned", "raised"}

\* C12 as stated: once the decode operation is over, by normal return or by
\* an error raised between open and return, no file it opened is still open.
C12_AsStated ==
    R2Over => r2_open = {}

\* C14 as stated: when decoding a later file of the group fails, the records
\* of the files decoded before it in the same read() are delivered to the
\* caller.
C14_AsStated ==
    (r2_pc = "raised" /\ r2_datasets # <<>>) =>
        /\ "datasets" \in DOMAIN r2_ret
        /\ r2_ret.datasets = r2_datasets

(***************************************************************************)
(*                IgorIBWReader.read, force-curve path                     *)
(***************************************************************************)

\* Largest number of points per channel of a force curve.
MaxPts == 3
\* Largest number of channels of a wave.
MaxChan == 2

ChanLabels == {"ZSnsr", "Raw", "Defl", "Amp"}

\* Sequences over S of length lo .. hi.
SeqsOf(S, lo, hi) == UNION { [1 .. n -> S] : n \in lo .. hi }

\* A force-curve wave: wData of shape (npts, nchan) and the label list that
\* _get_chan_labels produced, which has one label per channel or one more
\* (the null layer-0 label of older files).
IgorWaves ==
    { w \in [npts : 1 .. MaxPts, nchan : 1 .. MaxChan,
             labels : SeqsOf(ChanLabels, 1, MaxChan + 1)] :
        Len(w.labels) \in {w.nchan, w.nchan + 1} }

\* Array elements are kept apart by what they are: point `row` of channel
\* `chan` of wData, or the integer n of an np.arange.
DataVal(chan, row) == [src |-> "wData", chan |-> chan, row |-> row]
IndexVal(n) == [src |-> "arange", n |-> n]

\* images[:, chan, 0]: the npts points of one channel.
Column(w, chan) == [r \in 1 .. w.npts |-> DataVal(chan, r)]

\* np.arange(n)
Arange(n) == [i \in 1 .. n |-> IndexVal(i - 1)]

\* igor_ibw.py 307-309: the label list is shortened by its first entry when
\* its length differs from the last array dimension.
AdjustedLabels(w) ==
    IF w.nchan # Len(w.labels) THEN Tail(w.labels) ELSE w.labels

\* list.index(x), 1-based; 0 stands for ValueError.
IndexOf(labels, x) ==
    IF \E i \in DOMAIN labels : labels[i] = x
    THEN CHOOSE i \in DOMAIN labels :
            labels[i] = x /\ \A j \in 1 .. (i - 1) : labels[j] # x
    ELSE 0

\* np.atleast_3d of the (npts, nchan) array: (npts, nchan, 1).
Shape3d(w) == <<w.npts, w.nchan, 1>>

\* igor_ibw.py 358-360: neither label found: np.arange(images.shape[2]).
FallbackAxis(w) == Arange(Shape3d(w)[3])

\* igor_ibw.py 350-360: the spectroscopic values.
spec_data_raw_first(w) ==
    LET labels == AdjustedLabels(w)
        z == IndexOf(labels, "ZSnsr")
        r == IndexOf(labels, "Raw") IN
    IF r # 0 THEN Column(w, r)
    ELSE IF z # 0 THEN Column(w, z)
    ELSE FallbackAxis(w)
spec_data(w) ==
    LET labels == AdjustedLabels(w)
        z == IndexOf(labels, "ZSnsr")
        r == IndexOf(labels, "Raw") IN
    IF z # 0 THEN Column(w, z)
    ELSE IF r # 0 THEN Column(w, r)
    ELSE FallbackAxis(w)

\* igor_ibw.py 352, 356: .squeeze() drops every dimension of length 1, so the
\* column of a one-point curve becomes a 0-dimensional array; np.arange of
\* the fallback is not squeezed.  The number of dimensions of spec_data.
spec_ndim(w) ==
    LET labels == AdjustedLabels(w) IN
    IF (IndexOf(labels, "ZSnsr") # 0 \/ IndexOf(labels, "Raw") # 0) /\ w.npts = 1
    THEN 0 ELSE 1

\* igor_ibw.py 363-387: one dataset per channel: its points, and spec_data as
\* the values of dimension 0.
ForceCurveDatasets(w) ==
    [c \in 1 .. w.nchan |->
        [name |-> AdjustedLabels(w)[c],
         data |-> Column(w, c),
         axis |-> spec_data(w),
         axis_ndim |-> spec_ndim(w)]]

\* IgorIBWReader.read on a 2-D wave (igor_ibw.py 269-390).  A label list that
\* is still shorter than the channel count makes chan_labels[channel] raise.
\* What is returned is the list `datasets` (305, 387, 390), one dataset per
\* channel in channel order, without keys.
IgorRead(w) ==
    IF Len(AdjustedLabels(w)) < w.nchan
    THEN [kind |-> "raised", error |-> "IndexError"]
    ELSE [kind |-> "returned", container |-> "list",
          datasets |-> ForceCurveDatasets(w)]

IGInputs ==
    /\ ig_call \in IgorWaves
    /\ ig_ret = [kind |-> "none"]

InitIgor ==
    /\ MRCInit
    /\ FGInit
    /\ IMInit
    /\ R2Init
    /\ IGInputs
    /\ R1Init
    /\ R3Init
    /\ SDInit
    /\ HDInit
    /\ IBInit
    /\ MXInit
    /\ CUInit
    /\ AXInit
    /\ GLInit
    /\ GPInit
    /\ CKInit

IGRead ==
    /\ ig_ret.kind = "none"
    /\ ig_ret' = IgorRead(ig_call)
    /\ UNCHANGED <<ig_call, mrcVars, fgVars, imVars, r2Vars, r1Vars, r3Vars, sdVars, hdVars, ibVars, mxVars, cuVars, axVars, glVars, gpVars, ckVars>>

IGNext == IGRead

SpecIgor == InitIgor /\ [][IGNext]_vars

-----------------------------------------------------------------------------
\* Claims about the force-curve path of IgorIBWReader.read

NoZLabel(w) ==
    \A i \in DOMAIN AdjustedLabels(w) : AdjustedLabels(w)[i] \notin {"ZSnsr", "Raw"}

\* C6 as stated: with no 'ZSnsr' and no 'Raw' label the read succeeds and the
\* axis of every dataset is the index sequence 0 .. N-1, as long as its data.
C6_AsStated ==
    (ig_ret.kind # "none" /\ NoZLabel(ig_call)) =>
        /\ ig_ret.kind = "returned"
        /\ \A c \in DOMAIN ig_ret.datasets :
              /\ Len(ig_ret.datasets[c].axis) = ig_call.npts
              /\ Len(ig_ret.datasets[c].axis) = Len(ig_ret.datasets[c].data)
              /\ \A i \in 1 .. ig_call.npts :
                    ig_ret.datasets[c].axis[i] = IndexVal(i - 1)

\* The wave has a channel labelled x.
HasLabel(w, x) == IndexOf(AdjustedLabels(w), x) # 0

\* The axis every record must have: the 'ZSnsr' channel, or without one the
\* 'Raw' channel.
ZAxisOf(w) ==
    IF HasLabel(w, "ZSnsr") THEN Column(w, IndexOf(AdjustedLabels(w), "ZSnsr"))
    ELSE Column(w, IndexOf(AdjustedLabels(w), "Raw"))

KeyedInOrder(pairs) ==
    \A i \in DOMAIN pairs : pairs[i][1] = ChannelKey(i - 1)

\* C11 as stated: what read() returns is a mapping keyed 'Channel_000',
\* 'Channel_001', ... without gap or repeat, in discovery order, for
\* MRCReader, the WSxM 2-D and 3-D readers, IgorIBWReader and
\* IgorMatrixReader.
C11_AsStated ==
    /\ (mrc_ret.kind = "returned" => mrc_ret.key = ChannelKey(0))
    /\ (r2_ret.kind = "returned" => KeyedInOrder(r2_ret.datasets))
    /\ (r3_ret.kind = "returned" => KeyedInOrder(r3_ret.datasets))
    /\ (ig_ret.kind = "returned" => ig_ret.container = "dict")
    /\ (mx_ret.kind = "returned" => mx_ret.container = "dict")

(***************************************************************************)
(*          WSxM1DReader.read: merging .curves, .stp and .cur files        *)
(*                                                                         *)
(* A curve's arrays are represented by the position (1, 2, ...) in the     *)
(* group of the file they were decoded from.  The datasets of the result   *)
(* are keyed by their title, (channel, curve index).                       *)
(***************************************************************************)

\* Largest curve index in a file and largest number of rows of a .stp file.
MaxCurves == 2

\* Largest number of files in a group.
MaxGroup1D == 3

\* WSxMFuncs.SPECT_DICT values: the direction keys of a curve's 'data'.
Dirs == {"approach", "retract"}

\* Channel labels (chan_label of a .stp name, y_label of a .curves/.cur header).
Chans1D == {"Normal force", "Amplitude"}

\* The files the loop can meet.  A .curves file holds both directions of the
\* curve indices idxs; a .stp file holds one direction of the curves 1..rows;
\* a .cur file holds both directions of one curve index.
Files1D ==
    {[ext |-> ".curves", chan |-> c, dir |-> "both", rows |-> 0, idxs |-> s] :
        c \in Chans1D, s \in (SUBSET (1 .. MaxCurves)) \ {{}}}
    \cup
    {[ext |-> ".stp", chan |-> c, dir |-> z, rows |-> n, idxs |-> 1 .. n] :
        c \in Chans1D, z \in Dirs, n \in 1 .. MaxCurves}
    \cup
    {[ext |-> ".cur", chan |-> c, dir |-> "both", rows |-> 0, idxs |-> {i}] :
        c \in Chans1D, i \in 1 .. MaxCurves}

\* wsxm.py 846-866: a curve entry of _wsxm_readcurves decoded from file k;
\* its header's 'File path' is the path itself (line 795).
CurvesEntry(k) == [origin |-> ".curves", data |-> [z \in Dirs |-> k]]

\* wsxm.py 1008-1019: the curve entry of _wsxm_readcur decoded from file k;
\* its header's 'File path' is the path itself (line 930).
CurEntry(k) == [origin |-> ".cur", data |-> [z \in Dirs |-> k]]

\* wsxm.py 172: a shallow copy of an accumulator entry; its 'data' and
\* 'header' are the accumulator entry's own dictionaries.
SharedEntry == [origin |-> "shared", data |-> <<>>]

\* wsxm.py 1089, 1160: `filepath not in header['File path']` needs a list;
\* only .stp entries hold one, the others hold a Path and the test raises
\* TypeError.
FilePathIsList(e) == e.origin = ".stp"

\* Variant of stp_write that starts the entry's 'data' afresh for every file.
stp_write_fresh(curves, i, z_dir, k) ==
    [origin |-> ".stp", data |-> (z_dir :> k)]

\* wsxm.py 1148-1166: the entry of curve i after the .stp file k wrote its
\* direction z_dir: created when missing, otherwise only data[z_dir] is set.
stp_write(curves, i, z_dir, k) ==
    IF i \in DOMAIN curves
    THEN [curves[i] EXCEPT !.data = (z_dir :> k) @@ @]
    ELSE [origin |-> ".stp", data |-> (z_dir :> k)]

\* wsxm.py 1143-1166: the loop of _wsxm_readstp over the rows i .. x_num on
\* the accumulator's 'curves' dictionary of the channel.  It stops at the
\* first entry whose 'File path' is not a list, leaving the rows before it
\* written.
RECURSIVE stp_loop(_, _, _, _, _)
stp_loop(curves, i, x_num, z_dir, k) ==
    IF i > x_num
    THEN [curves |-> curves, raised |-> FALSE]
    ELSE IF i \in DOMAIN curves /\ ~FilePathIsList(curves[i])
         THEN [curves |-> curves, raised |-> TRUE]
         ELSE stp_loop((i :> stp_write(curves, i, z_dir, k)) @@ curves,
                       i + 1, x_num, z_dir, k)

\* wsxm.py 1044-1169: _wsxm_readstp(path, data_dict_stp) on file f, the k-th.
readstp(acc, f, k) ==
    stp_loop(IF f.chan \in DOMAIN acc THEN acc[f.chan] ELSE <<>>,
             1, f.rows, f.dir, k)

\* Variant of curves_merge that keeps the entries already present.
curves_merge_keep(old, temp) == old @@ temp

\* wsxm.py 163-164: every index of the .curves file replaces what is there.
curves_merge(old, temp) == temp @@ old

\* wsxm.py 170-172, 178-180: only the indices not yet present are added.
fill_missing(old, temp) == old @@ temp

\* wsxm.py 161, 168, 176: data_dict_chan[chan] = temp_dict[chan].copy() is a
\* shallow copy.  For a .stp file temp_dict is data_dict_stp itself, so the
\* channel's 'curves' dictionary IS the accumulator's (alias); for the other
\* files it is a dictionary of its own.
Aliased == [alias |-> TRUE, curves |-> <<>>]
Own(curves) == [alias |-> FALSE, curves |-> curves]

\* data_dict_chan[c]['curves'] as read() sees it: the accumulator's
\* dictionary when aliased, and shared entries looked up in the accumulator.
CurvesOf(stp, chan, c) ==
    IF chan[c].alias
    THEN stp[c]
    ELSE [i \in DOMAIN chan[c].curves |->
            IF chan[c].curves[i].origin = "shared"
            THEN stp[c][i]
            ELSE chan[c].curves[i]]

Curves1D(c) == CurvesOf(r1_stp, r1_chan, c)

\* wsxm.py 184-222: one dataset per channel and curve, titled
\* '<channel> (<curve>)', its directions and curve matrix from the entry's
\* 'data'.
Datasets1D ==
    LET titles == UNION {{<<c, i>> : i \in DOMAIN Curves1D(c)} : c \in DOMAIN r1_chan}
    IN [t \in titles |->
          [quantity |-> t[1],
           direction |-> DOMAIN Curves1D(t[1])[t[2]].data,
           y |-> Curves1D(t[1])[t[2]].data]]

\* The for loop can take one more file.
R1CanTake ==
    /\ r1_pc = "loop"
    /\ Len(r1_files) < MaxGroup1D

\* wsxm.py 158-164: the next file is a .curves file.
R1Curves ==
    /\ R1CanTake
    /\ \E f \in Files1D :
         /\ f.ext = ".curves"
         /\ LET k == Len(r1_files) + 1
                temp == [i \in f.idxs |-> CurvesEntry(k)]
            IN /\ r1_files' = Append(r1_files, f)
               /\ IF f.chan \notin DOMAIN r1_chan
                  THEN /\ r1_chan' = (f.chan :> Own(temp)) @@ r1_chan
                       /\ UNCHANGED r1_stp
                  ELSE IF r1_chan[f.chan].alias
                       THEN /\ r1_stp' = [r1_stp EXCEPT ![f.chan] = curves_merge(@, temp)]
                            /\ UNCHANGED r1_chan
                       ELSE /\ r1_chan' = [r1_chan EXCEPT ![f.chan].curves = curves_merge(@, temp)]
                            /\ UNCHANGED r1_stp
    /\ UNCHANGED <<r1_pc, r1_ret, mrcVars, fgVars, imVars, r2Vars, igVars, r3Vars, sdVars, hdVars, ibVars, mxVars, cuVars, axVars, glVars, gpVars, ckVars>>

\* wsxm.py 165-172: the next file is a .stp file.  _wsxm_readstp writes into
\* data_dict_stp; a TypeError in its loop ends read().
R1Stp ==
    /\ R1CanTake
    /\ \E f \in Files1D :
         /\ f.ext = ".stp"
         /\ LET k == Len(r1_files) + 1
                res == readstp(r1_stp, f, k)
                shared == [i \in DOMAIN res.curves |-> SharedEntry]
            IN /\ r1_files' = Append(r1_files, f)
               /\ r1_stp' = (f.chan :> res.curves) @@ r1_stp
               /\ IF res.raised
                  THEN /\ r1_pc' = "raised"
                       /\ r1_ret' = [kind |-> "raised", error |-> "TypeError"]
                       /\ UNCHANGED r1_chan
                  ELSE /\ r1_chan' =
                            IF f.chan \notin DOMAIN r1_chan
                            THEN (f.chan :> Aliased) @@ r1_chan
                            ELSE IF r1_chan[f.chan].alias
                                 THEN r1_chan
                                 ELSE [r1_chan EXCEPT ![f.chan].curves =
                                          fill_missing(@, shared)]
                       /\ UNCHANGED <<r1_pc, r1_ret>>
    /\ UNCHANGED <<mrcVars, fgVars, imVars, r2Vars, igVars, r3Vars, sdVars, hdVars, ibVars, mxVars, cuVars, axVars, glVars, gpVars, ckVars>>

\* wsxm.py 173-180: the next file is a .cur file.
R1Cur ==
    /\ R1CanTake
    /\ \E f \in Files1D :
         /\ f.ext = ".cur"
         /\ LET k == Len(r1_files) + 1
                temp == [i \in f.idxs |-> CurEntry(k)]
            IN /\ r1_files' = Append(r1_files, f)
               /\ IF f.chan \notin DOMAIN r1_chan
                  THEN /\ r1_chan' = (f.chan :> Own(temp)) @@ r1_chan
                       /\ UNCHANGED r1_stp
                  ELSE IF r1_chan[f.chan].alias
                       THEN /\ r1_stp' = [r1_stp EXCEPT ![f.chan] = fill_missing(@, temp)]
                            /\ UNCHANGED r1_chan
                       ELSE /\ r1_chan' = [r1_chan EXCEPT ![f.chan].curves = fill_missing(@, temp)]
                            /\ UNCHANGED r1_stp
    /\ UNCHANGED <<r1_pc, r1_ret, mrcVars, fgVars, imVars, r2Vars, igVars, r3Vars, sdVars, hdVars, ibVars, mxVars, cuVars, axVars, glVars, gpVars, ckVars>>

\* wsxm.py 184-224: the group is exhausted; the datasets are built and
\* returned.  A group holds at least the file read() was given.
R1Return ==
    /\ r1_pc = "loop"
    /\ Len(r1_files) >= 1
    /\ r1_pc' = "returned"
    /\ r1_ret' = [kind |-> "returned", datasets |-> Datasets1D]
    /\ UNCHANGED <<r1_files, r1_stp, r1_chan, mrcVars, fgVars, imVars, r2Vars, igVars, r3Vars, sdVars, hdVars, ibVars, mxVars, cuVars, axVars, glVars, gpVars, ckVars>>

R1Next ==
    \/ R1Curves
    \/ R1Stp
    \/ R1Cur
    \/ R1Return

SpecRead1D == Init /\ [][R1Next]_vars

-----------------------------------------------------------------------------
\* Claims about the merge of WSxM1DReader.read

Min(a, b) == IF a < b THEN a ELSE b
Max(a, b) == IF a > b THEN a ELSE b

\* The group so far is two .stp files of one channel: 'approach', then 'retract'.
ApproachThenRetract ==
    /\ Len(r1_files) = 2
    /\ r1_files[1].ext = ".stp" /\ r1_files[2].ext = ".stp"
    /\ r1_files[1].chan = r1_files[2].chan
    /\ r1_files[1].dir = "approach" /\ r1_files[2].dir = "retract"

BothDirections == ("approach" :> 1) @@ ("retract" :> 2)

\* C7: after an 'approach' .stp file and a 'retract' .stp file of the same
\* channel went through the one accumulator, every curve index both files
\* hold has one entry, with the first file's data under 'approach' and the
\* second's under 'retract'; the accumulator has one entry per curve index
\* of either file; and the datasets read() returns for that group carry both
\* directions for those curves.
C7_BothDirectionsMerged ==
    ApproachThenRetract =>
        LET c == r1_files[1].chan
            common == 1 .. Min(r1_files[1].rows, r1_files[2].rows)
        IN /\ r1_pc # "raised"
           /\ DOMAIN r1_stp[c] = 1 .. Max(r1_files[1].rows, r1_files[2].rows)
           /\ \A i \in common : r1_stp[c][i].data = BothDirections
           /\ r1_pc = "returned" =>
                 \A i \in common :
                    /\ <<c, i>> \in DOMAIN r1_ret.datasets
                    /\ r1_ret.datasets[<<c, i>>].direction = Dirs
                    /\ r1_ret.datasets[<<c, i>>].y = BothDirections

C7_Witness ==
    /\ ApproachThenRetract
    /\ r1_pc = "returned"
    /\ r1_files[1].rows = 2 /\ r1_files[2].rows = 2
    /\ r1_ret.datasets[<<r1_files[1].chan, 2>>].direction = Dirs

\* The step takes a .stp file as the next file of the group.
TakesStp ==
    /\ Len(r1_files') = Len(r1_files) + 1
    /\ r1_files'[Len(r1_files')].ext = ".stp"

\* C8 as stated: when a .stp file is taken, (1) no curve entry of the result
\* that a .curves file supplied is changed, and (2) every curve of the file
\* whose entry in the result came only from .stp files and already has the
\* file's direction gets that direction overwritten with the file's data.
C8_AsStated ==
    [][TakesStp =>
         LET f == r1_files'[Len(r1_files')]
             k == Len(r1_files')
         IN \A c \in DOMAIN r1_chan :
               \A i \in DOMAIN Curves1D(c) :
                  /\ Curves1D(c)[i].origin = ".curves" =>
                        /\ i \in DOMAIN CurvesOf(r1_stp', r1_chan', c)
                        /\ CurvesOf(r1_stp', r1_chan', c)[i] = Curves1D(c)[i]
                  /\ ( /\ c = f.chan
                       /\ i \in f.idxs
                       /\ Curves1D(c)[i].origin = ".stp"
                       /\ f.dir \in DOMAIN Curves1D(c)[i].data ) =>
                        /\ CurvesOf(r1_stp', r1_chan', c)[i].origin = ".stp"
                        /\ CurvesOf(r1_stp', r1_chan', c)[i].data[f.dir] = k
    ]_vars

\* The last file taken is a .curves file.
LastIsCurves ==
    /\ Len(r1_files) >= 1
    /\ r1_files[Len(r1_files)].ext = ".curves"

\* C9: once a .curves file was taken, every curve index it holds has, in
\* its channel of the result, exactly the .curves file's entry, whether or
\* not the channel or the index was present before; the datasets returned
\* right after carry that data.
C9_CurvesReplaces ==
    LastIsCurves =>
        LET k == Len(r1_files)
            f == r1_files[k]
        IN /\ f.chan \in DOMAIN r1_chan
           /\ \A i \in f.idxs :
                 /\ i \in DOMAIN Curves1D(f.chan)
                 /\ Curves1D(f.chan)[i] = CurvesEntry(k)
                 /\ r1_pc = "returned" =>
                       r1_ret.datasets[<<f.chan, i>>].y = [z \in Dirs |-> k]

\* A .stp file put curve 1 of the channel, then a .curves file holding
\* curve 1 of the same channel was taken and read() returned.
C9_Witness ==
    /\ LastIsCurves
    /\ Len(r1_files) = 2
    /\ r1_files[1].ext = ".stp"
    /\ r1_files[1].chan = r1_files[2].chan
    /\ 1 \in r1_files[2].idxs
    /\ r1_pc = "returned"
    /\ r1_ret.datasets[<<r1_files[2].chan, 1>>].y = [z \in Dirs |-> 2]

(***************************************************************************)
(*                          WSxM3DReader.read                              *)
(***************************************************************************)

\* Largest number of files in a group handed to the 3D reader.
MaxGroup3D == 3

\* The content of a *.gsi force-volume file: channel, image size, points per
\* ramp, and whether the payload is complete or one point short.
ForceVolFiles ==
    [chan : {"Normal force", "Amplitude"},
     rows : {1}, cols : {MaxPix}, ramp : {MaxFrames},
     short : {0, 1}]

\* The content of the movie files of a group.
Headers3D ==
    { h \in WSxMHeaders :
        /\ h.z_amp = [val |-> 2, unit |-> "nm"]
        /\ h.z_max = 1
        /\ h.conv = 2
        /\ h.rows = 1 /\ h.cols = MaxPix /\ h.frames = MaxFrames }

\* _wsxm_readforcevol(filepath) (wsxm.py 1172-1305): one topography image,
\* then `ramp` images of rows x cols points, reshaped to (ramp, cols, rows);
\* the Z axis has one ramp value per image.  A short payload fails in
\* reshape (line 1289).
ReadForceVol(g) ==
    IF g.short # 0 THEN [kind |-> "raised", error |-> "ValueError"]
    ELSE [kind |-> "returned",
          ZZshape |-> <<g.ramp, g.cols, g.rows>>,
          Xlen |-> g.rows,
          Ylen |-> g.cols,
          Zlen |-> g.ramp,
          topo_shape |-> <<g.rows, g.cols>>]

\* np.flip(np.rot90(ZZ, k=1, axes=(2,1)), axis=1): the last two dimensions
\* change places.
Rotated(shape) == <<shape[1], shape[3], shape[2]>>

\* wsxm.py 416-477: the record built from the locals, whatever file bound
\* them; `src` is the position of the file the locals were decoded from and
\* `file` the position of the file for which the record is emitted.
Dataset3D(local, k) ==
    [quantity |-> local.chan_label,
     data_type |-> local.zz_data_type,
     shape |-> Rotated(local.data.ZZshape),
     axes |-> <<local.data.Zlen, local.data.Xlen, local.data.Ylen>>,
     src |-> local.src,
     file |-> k]

\* The for loop can take one more file.
R3CanTake ==
    /\ r3_pc = "loop"
    /\ Len(r3_files) < MaxGroup3D

\* wsxm.py 475-477: the record goes under the next channel key.
R3Emit(local, k) ==
    r3_datasets' = Append(r3_datasets,
                          <<ChannelKey(Len(r3_datasets)), Dataset3D(local, k)>>)

\* wsxm.py 278-281, 416-477: the next file is a *.gsi file.
R3Gsi ==
    /\ R3CanTake
    /\ \E g \in ForceVolFiles :
         LET k == Len(r3_files) + 1
             res == ReadForceVol(g)
             local == [data |-> res, chan_label |-> g.chan,
                       zz_data_type |-> "SPECTRAL_IMAGE", src |-> k]
         IN /\ r3_files' = Append(r3_files, [ext |-> ".gsi", chan |-> g.chan])
            /\ IF res.kind = "raised"
               THEN /\ r3_pc' = "raised"
                    /\ r3_ret' = res
                    /\ UNCHANGED <<r3_local, r3_datasets>>
               ELSE /\ r3_local' = local
                    /\ R3Emit(local, k)
                    /\ UNCHANGED <<r3_pc, r3_ret>>
    /\ UNCHANGED <<mrcVars, fgVars, imVars, r2Vars, igVars, r1Vars, sdVars, hdVars, ibVars, mxVars, cuVars, axVars, glVars, gpVars, ckVars>>

\* wsxm.py 282-285, 416-477: the next file is a *.MOV or *.mpp file.
R3Movie ==
    /\ R3CanTake
    /\ \E h \in Headers3D, ext \in {".MOV", ".mpp"} :
         LET k == Len(r3_files) + 1
             res == ReadMovie(h)
             local == [data |-> res, chan_label |-> h.chan,
                       zz_data_type |-> "IMAGE_STACK", src |-> k]
         IN /\ r3_files' = Append(r3_files, [ext |-> ext, chan |-> h.chan])
            /\ IF res.kind = "raised"
               THEN /\ r3_pc' = "raised"
                    /\ r3_ret' = res
                    /\ UNCHANGED <<r3_local, r3_datasets>>
               ELSE /\ r3_local' = local
                    /\ R3Emit(local, k)
                    /\ UNCHANGED <<r3_pc, r3_ret>>
    /\ UNCHANGED <<mrcVars, fgVars, imVars, r2Vars, igVars, r1Vars, sdVars, hdVars, ibVars, mxVars, cuVars, axVars, glVars, gpVars, ckVars>>

\* wsxm.py 286-287, 416-477: the next file has any other extension.  The
\* assert statement tests a non-empty string, which is true: nothing is
\* raised there and the loop body goes on with the locals as they are.  Not
\* bound yet, line 416 raises UnboundLocalError; bound by an earlier file,
\* a record is built from them once more.
R3Other ==
    /\ R3CanTake
    /\ \E ext \in {".top", ".stp"} :
         LET k == Len(r3_files) + 1
         IN /\ r3_files' = Append(r3_files, [ext |-> ext, chan |-> "none"])
            /\ IF r3_local = Unbound
               THEN /\ r3_pc' = "raised"
                    /\ r3_ret' = [kind |-> "raised", error |-> "UnboundLocalError"]
                    /\ UNCHANGED <<r3_local, r3_datasets>>
               ELSE /\ R3Emit(r3_local, k)
                    /\ UNCHANGED <<r3_pc, r3_ret, r3_local>>
    /\ UNCHANGED <<mrcVars, fgVars, imVars, r2Vars, igVars, r1Vars, sdVars, hdVars, ibVars, mxVars, cuVars, axVars, glVars, gpVars, ckVars>>

\* wsxm.py 484: the group is exhausted, the dictionary is returned.
R3Return ==
    /\ r3_pc = "loop"
    /\ Len(r3_files) >= 1
    /\ r3_pc' = "returned"
    /\ r3_ret' = [kind |-> "returned", datasets |-> r3_datasets]
    /\ UNCHANGED <<r3_files, r3_local, r3_datasets, mrcVars, fgVars, imVars, r2Vars, igVars, r1Vars, sdVars, hdVars, ibVars, mxVars, cuVars, axVars, glVars, gpVars, ckVars>>

R3Next ==
    \/ R3Gsi
    \/ R3Movie
    \/ R3Other
    \/ R3Return

SpecRead3D == Init /\ [][R3Next]_vars

-----------------------------------------------------------------------------
\* Claims about WSxM3DReader.read

Supported3D == {".gsi", ".MOV", ".mpp"}

\* C13 as stated: once the loop took a file whose extension is none of .gsi,
\* .MOV, .mpp, read() has raised an error that names the unsupported file
\* type, and no record was emitted for that file.
C13_AsStated ==
    \A k \in DOMAIN r3_files :
        r3_files[k].ext \notin Supported3D =>
            /\ r3_pc = "raised"
            /\ r3_ret.error = "InvalidFileType"
            /\ \A j \in DOMAIN r3_datasets : r3_datasets[j][2].file # k

\* C30 as stated: every record was decoded from the file of the loop turn that
\* emitted it, and there are as many records as .gsi/.MOV/.mpp files taken.
C30_AsStated ==
    /\ \A j \in DOMAIN r3_datasets : r3_datasets[j][2].src = r3_datasets[j][2].file
    /\ (r3_pc # "raised" =>
           Len(r3_datasets) =
               Cardinality({k \in DOMAIN r3_files : r3_files[k].ext \in Supported3D}))

(***************************************************************************)
(*        WSxMFuncs._wsxm_readstp called without an accumulator            *)
(***************************************************************************)

\* Largest number of successive calls.
MaxCalls == 3

\* wsxm.py 1044, 1143-1169: _wsxm_readstp(filepath) with data_dict left to
\* its default.  The default is one dictionary object for all calls; the
\* loop writes into it and the call returns that very object.
SDCall ==
    /\ Len(sd_calls) < MaxCalls
    /\ sd_ret.kind # "raised"
    /\ \E f \in Files1D :
         /\ f.ext = ".stp"
         /\ LET k == Len(sd_calls) + 1
                res == readstp(sd_default, f, k)
                after == (f.chan :> res.curves) @@ sd_default
            IN /\ sd_calls' = Append(sd_calls, f)
               /\ sd_default' = after
               /\ sd_ret' = IF res.raised
                            THEN [kind |-> "raised", error |-> "TypeError"]
                            ELSE [kind |-> "returned", data_dict |-> after,
                                  chan_label |-> f.chan]
    /\ UNCHANGED <<mrcVars, fgVars, imVars, r2Vars, igVars, r1Vars, r3Vars, hdVars, ibVars, mxVars, cuVars, axVars, glVars, gpVars, ckVars>>

SDNext == SDCall

SpecStpDefault == Init /\ [][SDNext]_vars

-----------------------------------------------------------------------------
\* Claims about successive _wsxm_readstp calls

\* C17 as stated: the dictionary a call without accumulator returns holds
\* only what was read from that call's file: its channel, its curves
\* 1 .. rows, and for each of them its one direction with its data.
C17_AsStated ==
    sd_ret.kind = "returned" =>
        LET k == Len(sd_calls)
            f == sd_calls[k]
        IN /\ DOMAIN sd_ret.data_dict = {f.chan}
           /\ DOMAIN sd_ret.data_dict[f.chan] = 1 .. f.rows
           /\ \A i \in 1 .. f.rows :
                 sd_ret.data_dict[f.chan][i].data = (f.dir :> k)

(***************************************************************************)
(*                     WSxMFuncs._wsxm_readheader                          *)
(*                                                                         *)
(* A file is the sequence of its lines, each line the list of the parts    *)
(* that split(':') yields.  Lengths are counted in lines: the value of    *)
(* 'Image header size' is the number of lines of the header region, and    *)
(* the first read (inibyte) covers all the lines modelled.                 *)
(***************************************************************************)

\* Largest number of lines in a file.
MaxLines == 4

\* Section titles: lines without a colon.
Titles == {"[General Info]", "[Control]"}

\* The decimal strings int() is applied to.
IntOf == ("1" :> 1) @@ ("2" :> 2) @@ ("3" :> 3) @@ ("4" :> 4) @@ ("5" :> 5) @@ ("6" :> 6)

\* str.strip(): surrounding blanks removed.
Strip(s) ==
    IF s = " Gain " THEN "Gain"
    ELSE IF s = " 2 nm" THEN "2 nm"
    ELSE s

\* The lines a file may hold: a title, an empty line, the size field, a
\* field 'Gain' written with or without blanks around its name, and a line
\* with two colons (a clock time as value).
HeaderLines ==
    { <<t>> : t \in Titles } \cup { <<"">> }
    \cup { <<"Image header size", v>> : v \in { w \in DOMAIN IntOf : IntOf[w] <= MaxLines + 1 } }
    \cup { <<"Gain", " 2 nm">>, <<" Gain ", "7">> }
    \cup { <<"Time", " 12", "30">> }

RECURSIVE SeqsUpTo(_, _)
SeqsUpTo(S, n) ==
    IF n = 0 THEN { <<>> }
    ELSE LET shorter == SeqsUpTo(S, n - 1)
         IN shorter \cup { Append(s, x) : s \in { t \in shorter : Len(t) = n - 1 }, x \in S }

\* wsxm.py 597-603: the first line 'Image header size:<n>' gives header_size;
\* 0 stands for "never assigned".
RECURSIVE header_size_from(_, _)
header_size_from(lines, i) ==
    IF i > Len(lines) THEN 0
    ELSE IF Len(lines[i]) = 2 /\ lines[i][1] = "Image header size"
         THEN IntOf[lines[i][2]]
         ELSE header_size_from(lines, i + 1)

\* wsxm.py 613: f"{name.strip()} {title_list[-1]}".strip(), as the pair
\* (trimmed name, last title).  With no title yet, title_list[-1] raises
\* IndexError; scan_header tests for that before header_name is used.
header_name(name, title_list) == <<Strip(name), title_list[Len(title_list)]>>

\* wsxm.py 607-616: the loop over the lines of the header region, from line
\* i, with the dictionary and the title list built so far.
RECURSIVE scan_header(_, _, _, _)
scan_header(region, i, header_dict, title_list) ==
    IF i > Len(region)
    THEN [kind |-> "returned", header_dict |-> header_dict]
    ELSE LET hd_lst == region[i] IN
         IF Len(hd_lst) = 2
         THEN IF title_list = <<>>
              THEN [kind |-> "raised", error |-> "IndexError"]
              ELSE scan_header(region, i + 1,
                               (header_name(hd_lst[1], title_list) :> Strip(hd_lst[2]))
                                   @@ header_dict,
                               title_list)
         ELSE IF Len(hd_lst) = 1 /\ hd_lst[1] # ""
              THEN scan_header(region, i + 1, header_dict, Append(title_list, hd_lst[1]))
              ELSE scan_header(region, i + 1, header_dict, title_list)

\* file.read(header_size) from pos: at most what the file holds.
HeaderRegion(lines, pos, header_size) ==
    SubSeq(lines, pos + 1, IF pos + header_size < Len(lines)
                           THEN pos + header_size ELSE Len(lines))

\* _wsxm_readheader(file, pos) (wsxm.py 579-620) on the lines after pos.
ReadHeader(lines, pos) ==
    LET header_size == header_size_from(lines, pos + 1) IN
    IF header_size = 0
    THEN [kind |-> "raised", error |-> "UnboundLocalError"]
    ELSE LET res == scan_header(HeaderRegion(lines, pos, header_size), 1, <<>>, <<>>) IN
         IF res.kind = "raised" THEN res
         ELSE [kind |-> "returned", header_dict |-> res.header_dict,
               pos_new |-> pos + header_size]

HDInputs ==
    /\ hd_call \in SeqsUpTo(HeaderLines, MaxLines)
    /\ hd_ret = [kind |-> "none"]

InitHeader ==
    /\ MRCInit
    /\ FGInit
    /\ IMInit
    /\ R2Init
    /\ IGInit
    /\ R1Init
    /\ R3Init
    /\ SDInit
    /\ HDInputs
    /\ IBInit
    /\ MXInit
    /\ CUInit
    /\ AXInit
    /\ GLInit
    /\ GPInit
    /\ CKInit

HDRead ==
    /\ hd_ret.kind = "none"
    /\ hd_ret' = ReadHeader(hd_call, 0)
    /\ UNCHANGED <<hd_call, mrcVars, fgVars, imVars, r2Vars, igVars, r1Vars, r3Vars, sdVars, ibVars, mxVars, cuVars, axVars, glVars, gpVars, ckVars>>

HDNext == HDRead

SpecHeader == InitHeader /\ [][HDNext]_vars

-----------------------------------------------------------------------------
\* Claims about _wsxm_readheader

\* The file starts with a header region: the size field is there and the
\* region it announces lies within the file.
HasHeader ==
    /\ header_size_from(hd_call, 1) # 0
    /\ header_size_from(hd_call, 1) <= Len(hd_call)

\* The last title line before line i of the region, "" when there is none.
RECURSIVE TitleBefore(_, _)
TitleBefore(lines, i) ==
    IF i <= 1 THEN ""
    ELSE IF Len(lines[i - 1]) = 1 /\ lines[i - 1][1] # ""
         THEN lines[i - 1][1]
         ELSE TitleBefore(lines, i - 1)

\* C20 as stated: the call succeeds on any header, and every line
\* 'name: value' of the region is found under the key made of the trimmed
\* name and the most recent section title before it (no title: the name
\* alone), so that one name under two titles gives two entries.
C20_AsStated ==
    (hd_ret.kind # "none" /\ HasHeader) =>
        /\ hd_ret.kind = "returned"
        /\ \A i \in 1 .. header_size_from(hd_call, 1) :
              Len(hd_call[i]) = 2 =>
                 <<Strip(hd_call[i][1]), TitleBefore(hd_call, i)>>
                     \in DOMAIN hd_ret.header_dict

(***************************************************************************)
(*          igor_ibw.py: the optional igor package and its users           *)
(***************************************************************************)

\* Largest number of reader instances constructed.
MaxReaders == 3
\* Largest number of read() calls started.
MaxReads == 3

IgorClasses == {"IgorMatrixReader", "IgorIBWReader"}

\* igor_ibw.py not imported yet, in an environment with or without igor.
IBInputs ==
    /\ ib_installed \in BOOLEAN
    /\ ib_bw = "unloaded"
    /\ ib_readers = <<>>
    /\ ib_reads = 0
    /\ ib_ret = [kind |-> "none"]

InitIgorImport ==
    /\ MRCInit
    /\ FGInit
    /\ IMInit
    /\ R2Init
    /\ IGInit
    /\ R1Init
    /\ R3Init
    /\ SDInit
    /\ HDInit
    /\ IBInputs
    /\ MXInit
    /\ CUInit
    /\ AXInit
    /\ GLInit
    /\ GPInit
    /\ CKInit

\* igor_ibw.py 17-23: the import of the module.  A missing igor package is
\* caught: a message is printed and bw is set to None.
IBImport ==
    /\ ib_bw = "unloaded"
    /\ ib_bw' = IF ib_installed THEN "binarywave" ELSE "None"
    /\ ib_ret' = [kind |-> "imported", printed |-> ~ib_installed]
    /\ UNCHANGED <<ib_installed, ib_readers, ib_reads>>
    /\ UNCHANGED <<mrcVars, fgVars, imVars, r2Vars, igVars, r1Vars, r3Vars, sdVars, hdVars, mxVars, cuVars, axVars, glVars, gpVars, ckVars>>

\* Variant of MustRefuse that never refuses.
MustRefuse_never(bw) == FALSE

\* igor_ibw.py 32 and 263: the test `bw == None` at the top of __init__.
MustRefuse(bw) == bw = "None"

\* igor_ibw.py 31-36 and 262-267: IgorMatrixReader(...) or IgorIBWReader(...).
IBConstruct ==
    /\ ib_bw # "unloaded"
    /\ Len(ib_readers) < MaxReaders
    /\ \E cls \in IgorClasses :
         IF MustRefuse(ib_bw)
         THEN /\ ib_ret' = [kind |-> "raised", error |-> "ModuleNotFoundError",
                            message |-> "You attempted to load an Igor file, but this requires igor",
                            class |-> cls]
              /\ UNCHANGED ib_readers
         ELSE /\ ib_readers' = Append(ib_readers, cls)
              /\ ib_ret' = [kind |-> "constructed", class |-> cls]
    /\ UNCHANGED <<ib_installed, ib_bw, ib_reads>>
    /\ UNCHANGED <<mrcVars, fgVars, imVars, r2Vars, igVars, r1Vars, r3Vars, sdVars, hdVars, mxVars, cuVars, axVars, glVars, gpVars, ckVars>>

\* igor_ibw.py 58 and 289: read() on an instance starts with bw.load(path);
\* with bw None that attribute access raises AttributeError.
IBRead ==
    /\ ib_reads < MaxReads
    /\ \E i \in DOMAIN ib_readers :
         ib_ret' = IF ib_bw = "None"
                   THEN [kind |-> "raised", error |-> "AttributeError", class |-> ib_readers[i]]
                   ELSE [kind |-> "loaded", class |-> ib_readers[i]]
    /\ ib_reads' = ib_reads + 1
    /\ UNCHANGED <<ib_installed, ib_bw, ib_readers>>
    /\ UNCHANGED <<mrcVars, fgVars, imVars, r2Vars, igVars, r1Vars, r3Vars, sdVars, hdVars, mxVars, cuVars, axVars, glVars, gpVars, ckVars>>

IBNext ==
    \/ IBImport
    \/ IBConstruct
    \/ IBRead

SpecIgorImport == InitIgorImport /\ [][IBNext]_vars

-----------------------------------------------------------------------------
\* Claims about the optional igor package

\* C15: with the igor package absent the import of the module completes with
\* bw set to None and the notice printed; after it no reader instance exists
\* and no read() was started, and the only thing a construction does is
\* raise ModuleNotFoundError with its message.
C15_MissingIgorRefused ==
    (~ib_installed /\ ib_bw # "unloaded") =>
        /\ ib_bw = "None"
        /\ ib_readers = <<>>
        /\ ib_reads = 0
        /\ ib_ret.kind \in {"imported", "raised"}
        /\ ib_ret.kind = "imported" => ib_ret.printed
        /\ ib_ret.kind = "raised" =>
              /\ ib_ret.error = "ModuleNotFoundError"
              /\ ib_ret.message # ""

\* Without igor, an IgorIBWReader construction was refused.
C15_Witness ==
    /\ ~ib_installed
    /\ ib_bw = "None"
    /\ ib_ret.kind = "raised"
    /\ ib_ret.error = "ModuleNotFoundError"
    /\ ib_ret.class = "IgorIBWReader"

(***************************************************************************)
(*                        IgorMatrixReader.read                            *)
(***************************************************************************)

\* The substrings _read_parms looks for in the lines of the note.
NoteSubstrings ==
    {"Width", "lines per image", "Channel name", "Spectroscopy points",
     "Scan Sub-Grid", "axis start"}

\* The entries (keys of parm_dict) that tell the data type.
NoteEntries == {"Volume CITS", "Image data"}

\* A note, by what it holds: the substrings found in some line, and the
\* data-type entries among its 'key: value' lines.  Lines that are present
\* are well formed.
MatrixNotes == [lines : SUBSET NoteSubstrings, entries : SUBSET NoteEntries]

\* igor_ibw.py 176-179, 189-190: [ind for ... if s in parm_list[ind]][0]
\* raises IndexError when no line holds s.  The first substring, in program
\* order, whose lookup fails; "" when none fails.
FirstMissing(note, wanted) ==
    IF \A i \in DOMAIN wanted : wanted[i] \in note.lines THEN ""
    ELSE wanted[CHOOSE i \in DOMAIN wanted :
                   /\ wanted[i] \notin note.lines
                   /\ \A j \in 1 .. (i - 1) : wanted[j] \in note.lines]

\* IgorMatrixReader._read_parms (igor_ibw.py 127-207).  The message of the
\* IndexError is Python's 'list index out of range'.
MatrixReadParms(note) ==
    LET common == FirstMissing(note, <<"Width", "lines per image",
                                       "Channel name", "Spectroscopy points">>)
        cits == FirstMissing(note, <<"Scan Sub-Grid", "axis start">>)
    IN IF common # ""
       THEN [kind |-> "raised", error |-> "IndexError",
             message |-> "list index out of range", line |-> 176]
       ELSE IF "Volume CITS" \in note.entries
            THEN IF cits # ""
                 THEN [kind |-> "raised", error |-> "IndexError",
                       message |-> "list index out of range", line |-> 189]
                 ELSE [kind |-> "returned", has_datatype |-> TRUE, datatype |-> "Volume CITS"]
            ELSE IF "Image data" \in note.entries
                 THEN [kind |-> "returned", has_datatype |-> TRUE, datatype |-> "image"]
                 ELSE [kind |-> "returned", has_datatype |-> FALSE, datatype |-> ""]

\* IgorMatrixReader.read (igor_ibw.py 38-124): the parameters, then one
\* dataset by data type, returned as it is.  Without a 'datatype' entry
\* line 64 raises KeyError('datatype').
MatrixRead(note) ==
    LET parm_dict == MatrixReadParms(note) IN
    IF parm_dict.kind = "raised" THEN parm_dict
    ELSE IF ~parm_dict.has_datatype
         THEN [kind |-> "raised", error |-> "KeyError", message |-> "datatype", line |-> 64]
         ELSE [kind |-> "returned", container |-> "dataset",
               data_type |-> IF parm_dict.datatype = "image" THEN "Image" ELSE "SPECTRAL_IMAGE",
               ndim |-> IF parm_dict.datatype = "image" THEN 2 ELSE 3]

MXInputs ==
    /\ mx_call \in MatrixNotes
    /\ mx_ret = [kind |-> "none"]

InitMatrix ==
    /\ MRCInit
    /\ FGInit
    /\ IMInit
    /\ R2Init
    /\ IGInit
    /\ R1Init
    /\ R3Init
    /\ SDInit
    /\ HDInit
    /\ IBInit
    /\ MXInputs
    /\ CUInit
    /\ AXInit
    /\ GLInit
    /\ GPInit
    /\ CKInit

MXRead ==
    /\ mx_ret.kind = "none"
    /\ mx_ret' = MatrixRead(mx_call)
    /\ UNCHANGED <<mx_call, mrcVars, fgVars, imVars, r2Vars, igVars, r1Vars, r3Vars, sdVars, hdVars, ibVars, cuVars, axVars, glVars, gpVars, ckVars>>

MXNext == MXRead

SpecMatrix == InitMatrix /\ [][MXNext]_vars

-----------------------------------------------------------------------------
\* Claims about IgorMatrixReader

\* What the note lacks of what the reader relies on: the four substrings
\* always, the two CITS ones when the note is a 'Volume CITS' one, and both
\* data-type entries when it has neither.
Lacking(note) ==
    ({"Width", "lines per image", "Channel name", "Spectroscopy points"} \ note.lines)
    \cup (IF "Volume CITS" \in note.entries
          THEN {"Scan Sub-Grid", "axis start"} \ note.lines ELSE {})
    \cup (IF note.entries = {} THEN NoteEntries ELSE {})

\* The message of the error names an item the note lacks.
Descriptive(ret) == \E s \in Lacking(mx_call) : ret.message = s

\* C19 as stated: when the note lacks something the reader relies on, read()
\* raises an error that tells what is missing, and returns no dataset.
C19_AsStated ==
    (mx_ret.kind # "none" /\ Lacking(mx_call) # {}) =>
        /\ mx_ret.kind = "raised"
        /\ Descriptive(mx_ret)

(***************************************************************************)
(*        The cursor of the WSxM binary decoders (curves, force volume,    *)
(*        movie) and of the two readers they share                         *)
(***************************************************************************)

\* The largest number of curves or frames in a file.
MaxBlocks == 2

\* _wsxm_readheader(file, pos=0, inibyte=100): the bytes searched for the
\* 'Image header size' line.
inibyte == 100

\* A file, by its byte layout.  header_size is what every header announces
\* in its 'Image header size' line, which ends at byte size_line_end of the
\* header; img_len is x_num*y_num*point_length of the image a .curves file
\* starts with; data_len is the bytes of one curve (line_pts*line_num*2*
\* point_length) or of one frame (x_num*y_num*point_length); blocks is the
\* number of curves or frames; empty is the curve that has no points (0: none);
\* cut is the number of bytes missing at the end of the file.
CursorFiles ==
    {f \in [kind : {"curves", "forcevol", "movie"},
            header_size : {80, 120},
            size_line_end : {60},
            img_len : {16},
            data_len : {8},
            blocks : 1 .. MaxBlocks,
            empty : 0 .. MaxBlocks,
            cut : {0, 4, 100}] :
        /\ f.empty <= f.blocks
        /\ f.kind # "curves" => f.empty = 0}

\* The bytes the layout announces.
AnnouncedLength(f) ==
    CASE f.kind = "curves" ->
             f.header_size * (1 + f.blocks) + f.img_len
             + f.data_len * (f.blocks - (IF f.empty = 0 THEN 0 ELSE 1))
      [] f.kind = "forcevol" -> f.header_size + f.data_len * (1 + f.blocks)
      [] f.kind = "movie" -> f.header_size + f.data_len * f.blocks

\* The bytes the file holds.
FileLength(f) == Max(AnnouncedLength(f) - f.cut, 0)

\* file.read(n) at offset off: the number of bytes returned.
FileRead(f, off, n) == Min(n, Max(FileLength(f) - off, 0))

\* wsxm.py 618: pos_new = pos + header_size
pos_new_restart(pos, header_size) == header_size
pos_new_inibyte(pos, header_size) == pos + inibyte
pos_new(pos, header_size) == pos + header_size

\* What a decoder does after its first header.
FirstAfter(kind) ==
    CASE kind = "curves" -> "img"
      [] kind = "forcevol" -> "topo"
      [] kind = "movie" -> "frame"

\* The statement that follows a header.
AfterHeader(after) ==
    CASE after = "img" -> "i_seek"
      [] after = "curve" -> "c_seek"
      [] after = "topo" -> "t_seek"
      [] after = "frame" -> "v_seek"

CUInputs ==
    /\ cu_file \in CursorFiles
    /\ cu_pc = "start"
    /\ cu_after = "none"
    /\ cu_k = 0
    /\ cu_pos = 0
    /\ cu_off = 0
    /\ cu_got = 0
    /\ cu_found = FALSE
    /\ cu_short = FALSE
    /\ cu_ret = [op |-> "none"]

InitCursor ==
    /\ MRCInit
    /\ FGInit
    /\ IMInit
    /\ R2Init
    /\ IGInit
    /\ R1Init
    /\ R3Init
    /\ SDInit
    /\ HDInit
    /\ IBInit
    /\ MXInit
    /\ CUInputs
    /\ AXInit
    /\ GLInit
    /\ GPInit
    /\ CKInit

\* wsxm.py 784-785, 1201-1202, 1308-1309: open, then the first header is read
\* at the default pos = 0.
CUOpen ==
    /\ cu_pc = "start"
    /\ cu_pc' = "h_seek"
    /\ cu_after' = FirstAfter(cu_file.kind)
    /\ cu_pos' = 0
    /\ cu_off' = 0
    /\ UNCHANGED <<cu_file, cu_k, cu_got, cu_found, cu_short, cu_ret>>
    /\ UNCHANGED <<mrcVars, fgVars, imVars, r2Vars, igVars, r1Vars, r3Vars, sdVars, hdVars, ibVars, mxVars, axVars, glVars, gpVars, ckVars>>

\* wsxm.py 595: file.seek(pos, 0)
CUHeaderSeek ==
    /\ cu_pc = "h_seek"
    /\ cu_off' = cu_pos
    /\ cu_pc' = "h_find"
    /\ UNCHANGED <<cu_file, cu_after, cu_k, cu_pos, cu_got, cu_found, cu_short, cu_ret>>
    /\ UNCHANGED <<mrcVars, fgVars, imVars, r2Vars, igVars, r1Vars, r3Vars, sdVars, hdVars, ibVars, mxVars, axVars, glVars, gpVars, ckVars>>

\* wsxm.py 596-603: data = file.read(inibyte); header_size is bound when the
\* size line is among the bytes read.
CUHeaderFind ==
    /\ cu_pc = "h_find"
    /\ cu_got' = FileRead(cu_file, cu_off, inibyte)
    /\ cu_off' = cu_off + cu_got'
    /\ cu_found' = (cu_got' >= cu_file.size_line_end)
    /\ cu_pc' = "h_reseek"
    /\ UNCHANGED <<cu_file, cu_after, cu_k, cu_pos, cu_short, cu_ret>>
    /\ UNCHANGED <<mrcVars, fgVars, imVars, r2Vars, igVars, r1Vars, r3Vars, sdVars, hdVars, ibVars, mxVars, axVars, glVars, gpVars, ckVars>>

\* wsxm.py 605: file.seek(pos, 0), back to the start of the header
CUHeaderReseek ==
    /\ cu_pc = "h_reseek"
    /\ cu_off' = cu_pos
    /\ cu_pc' = "h_read"
    /\ UNCHANGED <<cu_file, cu_after, cu_k, cu_pos, cu_got, cu_found, cu_short, cu_ret>>
    /\ UNCHANGED <<mrcVars, fgVars, imVars, r2Vars, igVars, r1Vars, r3Vars, sdVars, hdVars, ibVars, mxVars, axVars, glVars, gpVars, ckVars>>

\* wsxm.py 606: data = file.read(header_size); UnboundLocalError when the
\* search did not bind header_size.
CUHeaderRead ==
    /\ cu_pc = "h_read"
    /\ IF cu_found
       THEN /\ cu_got' = FileRead(cu_file, cu_off, cu_file.header_size)
            /\ cu_off' = cu_off + cu_got'
            /\ cu_pc' = "h_ret"
       ELSE /\ cu_pc' = "raised"
            /\ UNCHANGED <<cu_got, cu_off>>
    /\ UNCHANGED <<cu_file, cu_after, cu_k, cu_pos, cu_found, cu_short, cu_ret>>
    /\ UNCHANGED <<mrcVars, fgVars, imVars, r2Vars, igVars, r1Vars, r3Vars, sdVars, hdVars, ibVars, mxVars, axVars, glVars, gpVars, ckVars>>

\* wsxm.py 607-619: the fields are parsed and pos + header_size is returned.
\* A header cut short may or may not hold the fields the caller looks up
\* next (KeyError).
CUHeaderReturn ==
    /\ cu_pc = "h_ret"
    /\ cu_pos' = pos_new(cu_pos, cu_file.header_size)
    /\ cu_ret' = [op |-> "readheader", in |-> cu_pos, out |-> cu_pos',
                  want |-> cu_file.header_size, got |-> cu_got]
    /\ \E fields \in (IF cu_got < cu_file.header_size THEN BOOLEAN ELSE {TRUE}) :
          cu_pc' = IF fields THEN AfterHeader(cu_after) ELSE "raised"
    /\ UNCHANGED <<cu_file, cu_after, cu_k, cu_off, cu_got, cu_found, cu_short>>
    /\ UNCHANGED <<mrcVars, fgVars, imVars, r2Vars, igVars, r1Vars, r3Vars, sdVars, hdVars, ibVars, mxVars, axVars, glVars, gpVars, ckVars>>

\* wsxm.py 674: file.seek(pos, 0) in _wsxm_readimg
CUImgSeek ==
    /\ cu_pc = "i_seek"
    /\ cu_off' = cu_pos
    /\ cu_pc' = "i_read"
    /\ UNCHANGED <<cu_file, cu_after, cu_k, cu_pos, cu_got, cu_found, cu_short, cu_ret>>
    /\ UNCHANGED <<mrcVars, fgVars, imVars, r2Vars, igVars, r1Vars, r3Vars, sdVars, hdVars, ibVars, mxVars, axVars, glVars, gpVars, ckVars>>

\* wsxm.py 675-676: data_len = x_num*y_num*point_length; file.read(data_len)
CUImgRead ==
    /\ cu_pc = "i_read"
    /\ cu_got' = FileRead(cu_file, cu_off, cu_file.img_len)
    /\ cu_off' = cu_off + cu_got'
    /\ cu_pc' = "i_ret"
    /\ UNCHANGED <<cu_file, cu_after, cu_k, cu_pos, cu_found, cu_short, cu_ret>>
    /\ UNCHANGED <<mrcVars, fgVars, imVars, r2Vars, igVars, r1Vars, r3Vars, sdVars, hdVars, ibVars, mxVars, axVars, glVars, gpVars, ckVars>>

\* wsxm.py 678-732: the image is reshaped to (x_num, y_num), a ValueError
\* when bytes are missing; then pos += data_len is returned and the loop
\* over the curves starts (786-793).
CUImgReturn ==
    /\ cu_pc = "i_ret"
    /\ IF cu_got < cu_file.img_len
       THEN /\ cu_pc' = "raised"
            /\ UNCHANGED <<cu_pos, cu_ret, cu_after, cu_k>>
       ELSE /\ cu_pos' = cu_pos + cu_file.img_len
            /\ cu_ret' = [op |-> "readimg", in |-> cu_pos, out |-> cu_pos',
                          want |-> cu_file.img_len, got |-> cu_got]
            /\ cu_after' = "curve"
            /\ cu_k' = 1
            /\ cu_pc' = "h_seek"
    /\ UNCHANGED <<cu_file, cu_off, cu_got, cu_found, cu_short>>
    /\ UNCHANGED <<mrcVars, fgVars, imVars, r2Vars, igVars, r1Vars, r3Vars, sdVars, hdVars, ibVars, mxVars, axVars, glVars, gpVars, ckVars>>

\* wsxm.py 824-828: file.seek(pos, 0); a curve without points is skipped by
\* `continue`, and the next header is read at the same pos.
CUCurveSeek ==
    /\ cu_pc = "c_seek"
    /\ cu_off' = cu_pos
    /\ IF cu_k = cu_file.empty
       THEN /\ cu_k' = cu_k + 1
            /\ cu_pc' = "h_seek"
       ELSE /\ cu_pc' = "c_read"
            /\ UNCHANGED cu_k
    /\ UNCHANGED <<cu_file, cu_after, cu_pos, cu_got, cu_found, cu_short, cu_ret>>
    /\ UNCHANGED <<mrcVars, fgVars, imVars, r2Vars, igVars, r1Vars, r3Vars, sdVars, hdVars, ibVars, mxVars, axVars, glVars, gpVars, ckVars>>

\* wsxm.py 830-871: bin_data = file.read(data_len); np.split raises
\* ValueError when the values read do not divide into line_num lines; the
\* loop ends at the last curve of the series.
CUCurveRead ==
    /\ cu_pc = "c_read"
    /\ cu_got' = FileRead(cu_file, cu_off, cu_file.data_len)
    /\ cu_off' = cu_off + cu_got'
    /\ \E splits \in (IF cu_got' < cu_file.data_len THEN BOOLEAN ELSE {TRUE}) :
          cu_pc' = IF ~splits THEN "raised"
                   ELSE IF cu_k = cu_file.blocks THEN "close" ELSE "c_adv"
    /\ UNCHANGED <<cu_file, cu_after, cu_k, cu_pos, cu_found, cu_short, cu_ret>>
    /\ UNCHANGED <<mrcVars, fgVars, imVars, r2Vars, igVars, r1Vars, r3Vars, sdVars, hdVars, ibVars, mxVars, axVars, glVars, gpVars, ckVars>>

\* wsxm.py 873: pos += data_len
CUCurveAdvance ==
    /\ cu_pc = "c_adv"
    /\ cu_pos' = cu_pos + cu_file.data_len
    /\ cu_ret' = [op |-> "curve", in |-> cu_pos, out |-> cu_pos',
                  want |-> cu_file.data_len, got |-> cu_got]
    /\ cu_pc' = "c_next"
    /\ UNCHANGED <<cu_file, cu_after, cu_k, cu_off, cu_got, cu_found, cu_short>>
    /\ UNCHANGED <<mrcVars, fgVars, imVars, r2Vars, igVars, r1Vars, r3Vars, sdVars, hdVars, ibVars, mxVars, axVars, glVars, gpVars, ckVars>>

\* wsxm.py 874: file.seek(pos, 0), then the next turn of the loop
CUCurveSeekNext ==
    /\ cu_pc = "c_next"
    /\ cu_off' = cu_pos
    /\ cu_k' = cu_k + 1
    /\ cu_pc' = "h_seek"
    /\ UNCHANGED <<cu_file, cu_after, cu_pos, cu_got, cu_found, cu_short, cu_ret>>
    /\ UNCHANGED <<mrcVars, fgVars, imVars, r2Vars, igVars, r1Vars, r3Vars, sdVars, hdVars, ibVars, mxVars, axVars, glVars, gpVars, ckVars>>

\* wsxm.py 1245: file.seek(pos, 0) before the topography of a force volume
CUTopoSeek ==
    /\ cu_pc = "t_seek"
    /\ cu_off' = cu_pos
    /\ cu_pc' = "t_read"
    /\ UNCHANGED <<cu_file, cu_after, cu_k, cu_pos, cu_got, cu_found, cu_short, cu_ret>>
    /\ UNCHANGED <<mrcVars, fgVars, imVars, r2Vars, igVars, r1Vars, r3Vars, sdVars, hdVars, ibVars, mxVars, axVars, glVars, gpVars, ckVars>>

\* wsxm.py 1246-1273: the topography is read and reshaped to (x_num, y_num),
\* a ValueError when bytes are missing; then pos += data_len.
CUTopoRead ==
    /\ cu_pc = "t_read"
    /\ cu_got' = FileRead(cu_file, cu_off, cu_file.data_len)
    /\ cu_off' = cu_off + cu_got'
    /\ IF cu_got' < cu_file.data_len
       THEN /\ cu_pc' = "raised"
            /\ UNCHANGED <<cu_pos, cu_ret>>
       ELSE /\ cu_pos' = cu_pos + cu_file.data_len
            /\ cu_ret' = [op |-> "topo", in |-> cu_pos, out |-> cu_pos',
                          want |-> cu_file.data_len, got |-> cu_got']
            /\ cu_pc' = "v_seek"
    /\ UNCHANGED <<cu_file, cu_after, cu_k, cu_found, cu_short>>
    /\ UNCHANGED <<mrcVars, fgVars, imVars, r2Vars, igVars, r1Vars, r3Vars, sdVars, hdVars, ibVars, mxVars, axVars, glVars, gpVars, ckVars>>

\* wsxm.py 1275-1276, 1402-1403: for i in range(1, chan_num+1): file.seek(pos, 0)
CUFrameSeek ==
    /\ cu_pc = "v_seek"
    /\ cu_off' = cu_pos
    /\ cu_k' = cu_k + 1
    /\ cu_pc' = "v_read"
    /\ UNCHANGED <<cu_file, cu_after, cu_pos, cu_got, cu_found, cu_short, cu_ret>>
    /\ UNCHANGED <<mrcVars, fgVars, imVars, r2Vars, igVars, r1Vars, r3Vars, sdVars, hdVars, ibVars, mxVars, axVars, glVars, gpVars, ckVars>>

\* wsxm.py 1277-1285, 1404-1434: bin_data = file.read(data_len); the values
\* read are appended; pos += data_len
CUFrameRead ==
    /\ cu_pc = "v_read"
    /\ cu_got' = FileRead(cu_file, cu_off, cu_file.data_len)
    /\ cu_off' = cu_off + cu_got'
    /\ cu_short' = (cu_short \/ cu_got' < cu_file.data_len)
    /\ cu_pos' = cu_pos + cu_file.data_len
    /\ cu_ret' = [op |-> "frame", in |-> cu_pos, out |-> cu_pos',
                  want |-> cu_file.data_len, got |-> cu_got']
    /\ cu_pc' = IF cu_k = cu_file.blocks THEN "reshape" ELSE "v_seek"
    /\ UNCHANGED <<cu_file, cu_after, cu_k, cu_found>>
    /\ UNCHANGED <<mrcVars, fgVars, imVars, r2Vars, igVars, r1Vars, r3Vars, sdVars, hdVars, ibVars, mxVars, axVars, glVars, gpVars, ckVars>>

\* wsxm.py 1288-1289, 1437-1438: ch_array.reshape(chan_num, y_num, x_num), a
\* ValueError when a frame came short
CUReshape ==
    /\ cu_pc = "reshape"
    /\ cu_pc' = IF cu_short THEN "raised" ELSE "close"
    /\ UNCHANGED <<cu_file, cu_after, cu_k, cu_pos, cu_off, cu_got, cu_found, cu_short, cu_ret>>
    /\ UNCHANGED <<mrcVars, fgVars, imVars, r2Vars, igVars, r1Vars, r3Vars, sdVars, hdVars, ibVars, mxVars, axVars, glVars, gpVars, ckVars>>

\* wsxm.py 879, 1304, 1453: file.close()
CUClose ==
    /\ cu_pc = "close"
    /\ cu_pc' = "closed"
    /\ UNCHANGED <<cu_file, cu_after, cu_k, cu_pos, cu_off, cu_got, cu_found, cu_short, cu_ret>>
    /\ UNCHANGED <<mrcVars, fgVars, imVars, r2Vars, igVars, r1Vars, r3Vars, sdVars, hdVars, ibVars, mxVars, axVars, glVars, gpVars, ckVars>>

CUNext ==
    \/ CUOpen
    \/ CUHeaderSeek
    \/ CUHeaderFind
    \/ CUHeaderReseek
    \/ CUHeaderRead
    \/ CUHeaderReturn
    \/ CUImgSeek
    \/ CUImgRead
    \/ CUImgReturn
    \/ CUCurveSeek
    \/ CUCurveRead
    \/ CUCurveAdvance
    \/ CUCurveSeekNext
    \/ CUTopoSeek
    \/ CUTopoRead
    \/ CUFrameSeek
    \/ CUFrameRead
    \/ CUReshape
    \/ CUClose

SpecCursor == InitCursor /\ [][CUNext]_vars

-----------------------------------------------------------------------------
\* Claims about the cursor

\* A cursor account was given: a header, an image, a curve or a frame was
\* read and pos was moved past it.
Accounted == cu_ret.op # "none"

C28_AsStated ==
    (cu_file.kind = "curves" /\ cu_file.cut = 0) =>
        /\ cu_k <= cu_file.blocks
        /\ cu_pc # "raised"

MaxRamp == 3

\* The ramp values a header field 'Image nnn' can hold.
RampValues == {0, 10, 20, 30}

\* np.flip of a one-dimensional array.
Flip(s) == [i \in 1 .. Len(s) |-> s[Len(s) + 1 - i]]

\* np.linspace(start, stop, num, endpoint=True): num values, the i-th
\* (from 0) being start + i*(stop - start)/(num - 1); each value is kept as
\* the fraction <<numerator, denominator>>.
linspace(start, stop, num) ==
    [i \in 1 .. num |->
        IF num = 1 THEN <<start, 1>>
        ELSE <<start * (num - 1) + (i - 1) * (stop - start), num - 1>>]

\* wsxm.py 1275-1289, 1402-1438: the images are read one after the other and
\* appended; reshape(chan_num, y_num, x_num) keeps that order, and so does
\* the reader (416 turns and flips the two image axes only).  Slice i of ZZ
\* is the i-th image of the file.
SlicesInFileOrder(chan_num) == [i \in 1 .. chan_num |-> i]

\* wsxm.py 1236-1240: z_data[i] = header 'Image {i:03}', then np.flip.
ForceVolZ(ramp) == Flip(ramp)

\* wsxm.py 1352: z_data = np.linspace(0, chan_num, chan_num, endpoint=True)
MovieZ(chan_num) == linspace(0, chan_num, chan_num)

\* What the decoder returns of the first axis and of the data.
Axes3D(call) ==
    [kind |-> "returned",
     Z |-> IF call.kind = "forcevol" THEN ForceVolZ(call.ramp) ELSE MovieZ(call.chan_num),
     slices |-> SlicesInFileOrder(call.chan_num)]

AXInputs ==
    /\ ax_call \in
          { [kind |-> k, chan_num |-> Len(r), ramp |-> r] :
                k \in {"forcevol", "movie"},
                r \in (SeqsUpTo(RampValues, MaxRamp) \ {<<>>}) }
    /\ ax_ret = [kind |-> "none"]

InitAxes ==
    /\ MRCInit
    /\ FGInit
    /\ IMInit
    /\ R2Init
    /\ IGInit
    /\ R1Init
    /\ R3Init
    /\ SDInit
    /\ HDInit
    /\ IBInit
    /\ MXInit
    /\ CUInit
    /\ AXInputs
    /\ GLInit
    /\ GPInit
    /\ CKInit

AXRead ==
    /\ ax_ret.kind = "none"
    /\ ax_ret' = Axes3D(ax_call)
    /\ UNCHANGED <<ax_call, mrcVars, fgVars, imVars, r2Vars, igVars, r1Vars, r3Vars, sdVars, hdVars, ibVars, mxVars, cuVars, glVars, gpVars, ckVars>>

AXNext == AXRead

SpecAxes == InitAxes /\ [][AXNext]_vars

-----------------------------------------------------------------------------
\* Claims about the first axis

\* C23 as stated: the ramp axis has one value per ramp point, Z[i] is the
\* header field of the opposite end of the list, and slice i of the data is
\* the image acquired at ramp value Z[i] (image j of the file being the one
\* of header field j).
C23_AsStated ==
    (ax_ret.kind = "returned" /\ ax_call.kind = "forcevol") =>
        /\ Len(ax_ret.Z) = ax_call.chan_num
        /\ \A i \in 1 .. ax_call.chan_num :
              /\ ax_ret.Z[i] = ax_call.ramp[ax_call.chan_num + 1 - i]
              /\ ax_call.ramp[ax_ret.slices[i]] = ax_ret.Z[i]

\* C24 as stated: the frame axis of a movie of N frames has N values, each an
\* integer, consecutive ones differing by 1.
C24_AsStated ==
    (ax_ret.kind = "returned" /\ ax_call.kind = "movie") =>
        /\ Len(ax_ret.Z) = ax_call.chan_num
        /\ \A i \in 1 .. ax_call.chan_num : ax_ret.Z[i][1] % ax_ret.Z[i][2] = 0
        /\ \A i \in 1 .. (ax_call.chan_num - 1) :
              ax_ret.Z[i + 1][1] - ax_ret.Z[i][1] = ax_ret.Z[i][2]

(***************************************************************************)
(*      _get_chan_labels (both Igor readers) and the length adjustment     *)
(*      of IgorIBWReader.read                                              *)
(***************************************************************************)

\* Largest number of labels of a wave.
MaxLabels == 3

\* A label is the text base + marker + tail: `marker` is a 'Trace' marker or
\* nothing, `tail` the text after the marker; neither base nor tail contains
\* 'trace'.  The empty label has all three empty.
LabelTexts ==
    { l \in [base : {"", "Height", "Phase", "Current"},
             marker : {"", "Trace"},
             tail : {"", "Mod"}] :
        l.marker = "" => l.tail = "" }

EmptyLabel == [base |-> "", marker |-> "", tail |-> ""]

\* igor_ibw.py 464-468: labels += item for every group of labels.
RECURSIVE Flatten(_)
Flatten(temp) ==
    IF temp = <<>> THEN <<>> ELSE Head(temp) \o Flatten(Tail(temp))

\* list.remove(''): the list without its first empty label.
RECURSIVE RemoveFirstEmpty(_)
RemoveFirstEmpty(labels) ==
    IF labels = <<>> THEN <<>>
    ELSE IF Head(labels) = EmptyLabel THEN Tail(labels)
    ELSE <<Head(labels)>> \o RemoveFirstEmpty(Tail(labels))

\* igor_ibw.py 469-471: for item in labels: if item == '': labels.remove(item).
\* The loop goes by position over the list it shortens, so the label after a
\* removed one is not looked at; and a bytes label never equals the str ''.
RECURSIVE remove_loop(_, _, _)
remove_loop(labels, i, is_bytes) ==
    IF i > Len(labels) THEN labels
    ELSE IF ~is_bytes /\ labels[i] = EmptyLabel
         THEN remove_loop(RemoveFirstEmpty(labels), i + 1, is_bytes)
         ELSE remove_loop(labels, i + 1, is_bytes)

\* igor_ibw.py 478-481: chan.lower().rfind('trace') > 0 is true when the
\* marker is there and not at the very start; then the label is cut right
\* after the marker.
clean(chan) ==
    IF chan.marker # "" /\ chan.base # ""
    THEN [chan EXCEPT !.tail = ""]
    ELSE chan

\* igor_ibw.py 483-488: the default unit by the start of the label.
default_unit_metres(chan) == "m"
default_unit(chan) ==
    IF chan.base = "Phase" THEN "deg"
    ELSE IF chan.base = "Current" THEN "A"
    ELSE "m"

\* _get_chan_labels (igor_ibw.py 444-490, 209-255).
get_chan_labels(temp, is_bytes) ==
    LET labels == remove_loop(Flatten(temp), 1, is_bytes)
    IN [labels |-> [i \in 1 .. Len(labels) |-> clean(labels[i])],
        default_units |-> [i \in 1 .. Len(labels) |-> default_unit(labels[i])]]

\* igor_ibw.py 307-309: both lists lose their first entry when the number of
\* labels differs from the number of channels.
adjusted(res, nchan) ==
    IF nchan # Len(res.labels)
    THEN [labels |-> SubSeq(res.labels, 2, Len(res.labels)),
          default_units |-> SubSeq(res.default_units, 2, Len(res.default_units))]
    ELSE res

\* A wave: the labels of its channel dimension, which hold one label per
\* channel, after the label of the dimension itself when `lead` is 1; the
\* groups of the other dimensions are empty.
GLInputs ==
    /\ gl_call \in
          { [labels |-> ls, is_bytes |-> b, lead |-> k] :
                ls \in (SeqsUpTo(LabelTexts, MaxLabels) \ {<<>>}),
                b \in BOOLEAN,
                k \in {0, 1} }
    /\ gl_ret = [kind |-> "none"]

InitLabels ==
    /\ MRCInit
    /\ FGInit
    /\ IMInit
    /\ R2Init
    /\ IGInit
    /\ R1Init
    /\ R3Init
    /\ SDInit
    /\ HDInit
    /\ IBInit
    /\ MXInit
    /\ CUInit
    /\ AXInit
    /\ GLInputs
    /\ GPInit
    /\ CKInit

\* The channel count of the wave.
NChan(call) == Len(call.labels) - call.lead

GLRead ==
    /\ gl_ret.kind = "none"
    /\ LET res == get_chan_labels(<<<<>>, <<>>, gl_call.labels, <<>>>>, gl_call.is_bytes)
       IN gl_ret' = [kind |-> "returned",
                     labels |-> res.labels,
                     default_units |-> res.default_units,
                     read |-> adjusted(res, NChan(gl_call))]
    /\ UNCHANGED <<gl_call, mrcVars, fgVars, imVars, r2Vars, igVars, r1Vars, r3Vars, sdVars, hdVars, ibVars, mxVars, cuVars, axVars, gpVars, ckVars>>

GLNext == GLRead

SpecLabels == InitLabels /\ [][GLNext]_vars

-----------------------------------------------------------------------------
\* Claims about the channel labels

\* The sequence s without its empty labels.
RECURSIVE NonEmpty(_)
NonEmpty(s) ==
    IF s = <<>> THEN <<>>
    ELSE IF Head(s) = EmptyLabel THEN NonEmpty(Tail(s))
    ELSE <<Head(s)>> \o NonEmpty(Tail(s))

\* C29 as stated: the labels returned hold no empty label, and the non-empty
\* labels of the input are all there, in their order.
C29_AsStated ==
    gl_ret.kind = "returned" =>
        /\ \A i \in DOMAIN gl_ret.labels : gl_ret.labels[i] # EmptyLabel
        /\ NonEmpty(gl_ret.labels) =
              [i \in 1 .. Len(NonEmpty(gl_call.labels)) |-> clean(NonEmpty(gl_call.labels)[i])]

\* The labels of the channels of the wave, in channel order.
ChannelLabels(call) == SubSeq(call.labels, 1 + call.lead, Len(call.labels))

\* The lists read() goes on with describe the channels: one entry per
\* channel, entry i being the label of channel i and its unit.
Aligned(call, read) ==
    /\ Len(read.labels) = NChan(call)
    /\ Len(read.default_units) = NChan(call)
    /\ \A i \in 1 .. NChan(call) :
          /\ read.labels[i].base = ChannelLabels(call)[i].base
          /\ read.labels[i].marker = ChannelLabels(call)[i].marker
          /\ read.default_units[i] = default_unit(ChannelLabels(call)[i])

\* The two lists are equally long and unit i goes by the start of label i:
\* 'deg' for 'Phase', 'A' for 'Current', 'm' otherwise.
UnitsByPrefix(ret) ==
    /\ Len(ret.labels) = Len(ret.default_units)
    /\ \A i \in DOMAIN ret.labels :
          ret.default_units[i] =
              (CASE ret.labels[i].base = "Phase" -> "deg"
                 [] ret.labels[i].base = "Current" -> "A"
                 [] OTHER -> "m")

\* C27 as stated: equal lengths and units by prefix; no label keeps text after
\* a 'Trace' marker; and after the length adjustment of read() label i and
\* unit i are those of channel i.
C27_AsStated ==
    gl_ret.kind = "returned" =>
        /\ UnitsByPrefix(gl_ret)
        /\ \A i \in DOMAIN gl_ret.labels :
              gl_ret.labels[i].marker # "" => gl_ret.labels[i].tail = ""
        /\ Aligned(gl_call, gl_ret.read)

\* C27: equal lengths and units by prefix; a label keeps no text after a
\* 'Trace' marker unless the label starts with the marker; and after the
\* length adjustment of read() label i and unit i are those of channel i
\* when the labels are bytes or no channel has an empty label.
C27_LabelsAndUnits ==
    gl_ret.kind = "returned" =>
        /\ UnitsByPrefix(gl_ret)
        /\ \A i \in DOMAIN gl_ret.labels :
              (gl_ret.labels[i].marker # "" /\ gl_ret.labels[i].base # "")
                  => gl_ret.labels[i].tail = ""
        /\ (gl_call.is_bytes
            \/ \A i \in DOMAIN ChannelLabels(gl_call) : ChannelLabels(gl_call)[i] # EmptyLabel)
              => Aligned(gl_call, gl_ret.read)

\* A wave of two channels with an empty dimension label before the labels
\* 'PhaseTraceMod' and 'Current' was read: the labels are 'PhaseTrace' and
\* 'Current', the units 'deg' and 'A'.
C27_Witness ==
    /\ gl_ret.kind = "returned"
    /\ gl_call.is_bytes
    /\ gl_call.lead = 1
    /\ gl_call.labels = <<EmptyLabel,
                          [base |-> "Phase", marker |-> "Trace", tail |-> "Mod"],
                          [base |-> "Current", marker |-> "", tail |-> ""]>>
    /\ gl_ret.read.labels = <<[base |-> "Phase", marker |-> "Trace", tail |-> ""],
                              [base |-> "Current", marker |-> "", tail |-> ""]>>
    /\ gl_ret.read.default_units = <<"deg", "A">>

(***************************************************************************)
(*                     IgorIBWReader._read_parms                           *)
(***************************************************************************)

\* Largest number of pieces (texts and separators) of a note line.
MaxToks == 5

Separators == {":", "="}

\* The texts between separators: a name, an integral number written after a
\* blank, a number with a fraction, the text 'nan'.
Texts == {"k", " 3", "2.5", "nan"}

\* A note line, as the sequence of its texts and separators; two texts never
\* stand side by side (they would be one text).
NoteLines ==
    { l \in SeqsUpTo(Texts \cup Separators, MaxToks) :
        \A i \in 1 .. (Len(l) - 1) : l[i] \in Separators \/ l[i + 1] \in Separators }

\* str.split(sep): the parts of the line between the occurrences of sep.
RECURSIVE split(_, _)
split(line, sep) ==
    IF \A i \in DOMAIN line : line[i] # sep THEN <<line>>
    ELSE LET i == CHOOSE j \in DOMAIN line :
                      line[j] = sep /\ \A m \in 1 .. (j - 1) : line[m] # sep
         IN <<SubSeq(line, 1, i - 1)>> \o split(SubSeq(line, i + 1, Len(line)), sep)

\* str.strip() of a part: the blank before its first text is dropped.
strip(part) ==
    IF part # <<>> /\ part[1] = " 3" THEN <<"3">> \o Tail(part) ELSE part

\* igor_ibw.py 427-437: float(temp[1]), then int(num) when num == int(num).
\* float() raises ValueError for a text that is no number; int(nan) raises
\* ValueError too, which the outer except catches after the float was
\* stored: the entry ends as the text.
coerce(text) ==
    IF text = <<"3">> THEN [type |-> "int", text |-> text]
    ELSE IF text = <<"2.5">> THEN [type |-> "float", text |-> text]
    ELSE [type |-> "str", text |-> text]

\* igor_ibw.py 422-437: the line is split on ':' and then on '='; each split
\* that gives exactly two parts stores an entry.
parse_line(parm_dict, pair_string) ==
    LET by_colon == split(pair_string, ":")
        by_equal == split(pair_string, "=")
        d1 == IF Len(by_colon) = 2
              THEN (strip(by_colon[1]) :> coerce(strip(by_colon[2]))) @@ parm_dict
              ELSE parm_dict
    IN IF Len(by_equal) = 2
       THEN (strip(by_equal[1]) :> coerce(strip(by_equal[2]))) @@ d1
       ELSE d1

GPInputs ==
    /\ gp_call \in NoteLines
    /\ gp_ret = [kind |-> "none"]

InitParms ==
    /\ MRCInit
    /\ FGInit
    /\ IMInit
    /\ R2Init
    /\ IGInit
    /\ R1Init
    /\ R3Init
    /\ SDInit
    /\ HDInit
    /\ IBInit
    /\ MXInit
    /\ CUInit
    /\ AXInit
    /\ GLInit
    /\ GPInputs
    /\ CKInit

\* _read_parms on a note of one line (igor_ibw.py 410-437).
GPRead ==
    /\ gp_ret.kind = "none"
    /\ gp_ret' = [kind |-> "returned", parm_dict |-> parse_line(<<>>, gp_call)]
    /\ UNCHANGED <<gp_call, mrcVars, fgVars, imVars, r2Vars, igVars, r1Vars, r3Vars, sdVars, hdVars, ibVars, mxVars, cuVars, axVars, glVars, ckVars>>

GPNext == GPRead

SpecParms == InitParms /\ [][GPNext]_vars

-----------------------------------------------------------------------------
\* Claims about IgorIBWReader._read_parms

\* C22 as stated: the call returns; every entry has an int for an integral
\* number, a float for another number and the trimmed text otherwise; and
\* one note line gives at most one entry.
C22_AsStated ==
    gp_ret.kind # "none" =>
        /\ gp_ret.kind = "returned"
        /\ \A k \in DOMAIN gp_ret.parm_dict :
              gp_ret.parm_dict[k].type =
                  (CASE gp_ret.parm_dict[k].text = <<"3">> -> "int"
                     [] gp_ret.parm_dict[k].text = <<"2.5">> -> "float"
                     [] OTHER -> "str")
        /\ Cardinality(DOMAIN gp_ret.parm_dict) <= 1

(***************************************************************************)
(*     The keys and directions of the curves stored by _wsxm_readcurves    *)
(*     and _wsxm_readcur                                                   *)
(***************************************************************************)

\* Largest 'Number of lines' of a curve.
MaxLineNum == 5

\* The header of one curve: the decoder it is handed to, the text of
\* 'Index of this Curve' ("absent": the header has no such field),
\* 'Number of lines' and 'First Forward'.
CurveHeaders ==
    [decoder : {"readcurves", "readcur"},
     index : {"1", "2", "Average", "absent"},
     line_num : 1 .. MaxLineNum,
     first_forward : {"Yes", "No"}]

\* chr(ord("a") + j)
Letter(j) == <<"a", "b", "c", "d">>[j + 1]

\* wsxm.py 820-822, 942-944: approach first, unless 'First Forward' is 'No'.
line_order_fixed(h) == <<"approach", "retract">>
line_order(h) ==
    IF h.first_forward = "No" THEN <<"retract", "approach">>
    ELSE <<"approach", "retract">>

\* wsxm.py 846, 1002: f'{curv_ind}{letter}' if line_num > 2 else curv_ind.
\* A key is the index, whether it is an int or a str, and the letter ("":
\* none); a key with a letter is a str.
curv_ind_j(h, curv_ind, j) ==
    IF h.line_num > 2
    THEN [index |-> curv_ind.text, letter |-> Letter(j), type |-> "str"]
    ELSE [index |-> curv_ind.text, letter |-> "", type |-> curv_ind.type]

\* wsxm.py 842-866, 999-1016: one entry per pair of lines; direction
\* line_order[i] of pair j holds line 2j + i of the file (from 0).
curve_entries(h, curv_ind) ==
    LET npairs == h.line_num \div 2
        entry(j) == [d \in {line_order(h)[1], line_order(h)[2]} |->
                        IF d = line_order(h)[1] THEN 2 * j ELSE 2 * j + 1]
    IN [kind |-> "returned",
        curves |-> { <<curv_ind_j(h, curv_ind, j), entry(j)>> : j \in 0 .. (npairs - 1) }]

\* wsxm.py 801: curv_ind = int(header_dict['Index of this Curve [Control]']);
\* KeyError without the field, ValueError for 'Average'.
readcurves_entries(h) ==
    IF h.index = "absent" THEN [kind |-> "raised", error |-> "KeyError"]
    ELSE IF h.index \notin DOMAIN IntOf THEN [kind |-> "raised", error |-> "ValueError"]
    ELSE curve_entries(h, [text |-> h.index, type |-> "int"])

\* wsxm.py 932-967, 999-1016: 'Average' stays a str, another index becomes an
\* int; without the field the lines are named after the channel and stored
\* under index 1 as one entry.
readcur_entries(h) ==
    IF h.index = "absent"
    THEN [kind |-> "returned",
          curves |-> { <<curv_ind_j(h, [text |-> "1", type |-> "int"], 0),
                         [d \in 1 .. h.line_num |-> d - 1]>> }]
    ELSE IF h.index = "Average"
         THEN curve_entries(h, [text |-> "Average", type |-> "str"])
         ELSE curve_entries(h, [text |-> h.index, type |-> "int"])

CKInputs ==
    /\ ck_call \in CurveHeaders
    /\ ck_ret = [kind |-> "none"]

InitCurveKeys ==
    /\ MRCInit
    /\ FGInit
    /\ IMInit
    /\ R2Init
    /\ IGInit
    /\ R1Init
    /\ R3Init
    /\ SDInit
    /\ HDInit
    /\ IBInit
    /\ MXInit
    /\ CUInit
    /\ AXInit
    /\ GLInit
    /\ GPInit
    /\ CKInputs

CKRead ==
    /\ ck_ret.kind = "none"
    /\ ck_ret' = IF ck_call.decoder = "readcurves"
                 THEN readcurves_entries(ck_call)
                 ELSE readcur_entries(ck_call)
    /\ UNCHANGED <<ck_call, mrcVars, fgVars, imVars, r2Vars, igVars, r1Vars, r3Vars, sdVars, hdVars, ibVars, mxVars, cuVars, axVars, glVars, gpVars>>

CKNext == CKRead

SpecCurveKeys == InitCurveKeys /\ [][CKNext]_vars

-----------------------------------------------------------------------------
\* Claims about the curve keys

\* The header is the one of a spectroscopy curve.
Spectroscopy(h) == h.index # "absent"

\* Every entry holds 'approach' and 'retract', the first line of its pair
\* under 'approach' unless 'First Forward' is 'No', then under 'retract'.
ApproachAndRetract(h, ret) ==
    \A e \in ret.curves :
        /\ DOMAIN e[2] = {"approach", "retract"}
        /\ e[2][IF h.first_forward = "No" THEN "retract" ELSE "approach"] < 
           e[2][IF h.first_forward = "No" THEN "approach" ELSE "retract"]

\* C26 as stated: a spectroscopy curve is decoded by either decoder; a single
\* pair is keyed by the numeric index, or by 'Average' for an average curve;
\* several pairs by the index followed by 'a', 'b', ...; and every entry
\* holds both directions, in the order 'First Forward' tells.
C26_AsStated ==
    (ck_ret.kind # "none" /\ Spectroscopy(ck_call)) =>
        /\ ck_ret.kind = "returned"
        /\ ApproachAndRetract(ck_call, ck_ret)
        /\ \A e \in ck_ret.curves :
              /\ e[1].index = ck_call.index
              /\ (ck_call.line_num \div 2 = 1 =>
                     /\ e[1].letter = ""
                     /\ e[1].type = (IF ck_call.index = "Average" THEN "str" ELSE "int"))
              /\ (ck_call.line_num \div 2 > 1 => e[1].letter # "")

\* C26: _wsxm_readcurves fails on an 'Average' index and _wsxm_readcur
\* decodes it; a curve of at most two lines is keyed by the index (an int, or
\* the str 'Average'), a curve of more than two lines by the index followed
\* by the letter of the pair, 'a' for the first; there is one entry per
\* whole pair of lines, and every entry holds both directions in the order
\* 'First Forward' tells.
C26_CurveKeys ==
    (ck_ret.kind # "none" /\ Spectroscopy(ck_call)) =>
        IF ck_call.decoder = "readcurves" /\ ck_call.index = "Average"
        THEN ck_ret.kind = "raised"
        ELSE /\ ck_ret.kind = "returned"
             /\ ApproachAndRetract(ck_call, ck_ret)
             /\ Cardinality(ck_ret.curves) = ck_call.line_num \div 2
             /\ \A e \in ck_ret.curves :
                   /\ e[1].index = ck_call.index
                   /\ (ck_call.line_num <= 2 =>
                          /\ e[1].letter = ""
                          /\ e[1].type = (IF ck_call.index = "Average" THEN "str" ELSE "int"))
                   /\ (ck_call.line_num > 2 =>
                          /\ e[1].type = "str"
                          /\ e[1].letter = Letter(e[2]["approach"] \div 2))

\* A curve of index 2 with four lines and 'First Forward: No' was decoded by
\* _wsxm_readcurves: entries '2a' and '2b', the first line of each pair
\* under 'retract'.
C26_Witness ==
    /\ ck_call = [decoder |-> "readcurves", index |-> "2", line_num |-> 4,
                  first_forward |-> "No"]
    /\ ck_ret.kind = "returned"
    /\ ck_ret.curves =
          { <<[index |-> "2", letter |-> "a", type |-> "str"],
              [d \in {"approach", "retract"} |-> IF d = "retract" THEN 0 ELSE 1]>>,
            <<[index |-> "2", letter |-> "b", type |-> "str"],
              [d \in {"approach", "retract"} |-> IF d = "retract" THEN 2 ELSE 3]>> }

=============================================================================
